---- MODULE Spec2Model ----
(***************************************************************************)
(* A model of wormhole-shadow: two endpoints (the worker thread X, which   *)
(* exports a value under the bootstrap token 0, and the main thread Y,     *)
(* which holds a remote handle for it), the message channel between them,  *)
(* the token registry, the value marshaller, the remote handles, the       *)
(* request correlator, the dispatcher and disposal.                        *)
(*                                                                         *)
(* JavaScript values are modelled by strings (see Values below), wire      *)
(* values and messages by records of one fixed shape each.                 *)
(***************************************************************************)
EXTENDS Integers, Sequences, FiniteSets, TLC

VARIABLES
    counter,        \* the shared Uint32Array cell behind aquireToken
    key2Obj,        \* per endpoint: token -> registry entry (a promise)
    obj2Key,        \* per endpoint: reference value -> token (reverse lookup)
    resolvers,      \* per endpoint: tokens with a pending settle-pair
    fut,            \* per endpoint: the promise sendAndWait returned per token
    solidObjects,   \* per endpoint: the reference values setSolid marked
    globalSolidObjects, \* per thread: the clones solid() made of plain objects
    handles,        \* every remote-handle instance (proxy) created so far
    chan,           \* per endpoint: its inbound message queue (the port)
    tasks,          \* per endpoint: onReceive calls suspended at an await
    heap,           \* properties of the reference values
    own,            \* per endpoint: the handler still has its own properties
    disposed,       \* per endpoint: dispose() was called (history)
    last,           \* what the most recent step did (observation)
    ops,            \* number of local operations performed so far
    tpc,            \* token threads: position inside aquireToken
    treg,           \* token threads: the value read from the cell
    tret,           \* token threads: the values aquireToken returned, in order
    key2Sym,        \* per endpoint: key -> symbol
    sym2Key,        \* per endpoint: symbol -> key
    tsym,           \* per thread: the symbol fromSymbol is acquiring a key for
    disposableCallbacks, \* per endpoint: the onDispose callbacks, in order
    invoked,        \* per endpoint and callback: its invocations (history)
    cells           \* per endpoint: its own token counter, where it has one

vars == << counter, key2Obj, obj2Key, resolvers, fut, solidObjects,
           globalSolidObjects, handles, chan, tasks, heap, own, disposed, last, ops, tpc, treg, tret,
           key2Sym, sym2Key, tsym, disposableCallbacks, invoked, cells >>

protoVars == << key2Obj, obj2Key, resolvers, fut, solidObjects,
                globalSolidObjects, handles, chan, tasks, heap, own, disposed, last, ops >>

tokVars == << tpc, treg, tret >>

symVars == << key2Sym, sym2Key, tsym >>

cbVars == << disposableCallbacks, invoked >>

----------------------------------------------------------------------------
(* Bounds of the model.                                                    *)

\* Width of the counter cell. The source's cell is 32 bits wide
\* (Uint32Array); the model keeps the wrap-around and scales the width.
CounterBits == 3

\* The protocol specification stops acquiring tokens at this counter value.
MaxToken == 4

\* Number of local operations (handle operations, raw requests, ...).
MaxOps == 2

\* Number of aquireToken calls in the token specification.
MaxCalls == 9

\* Number of direct calls of the handler's public methods in the
\* marshaller specification.
MaxApi == 3

RECURSIVE Pow2(_)
Pow2(n) == IF n = 0 THEN 1 ELSE 2 * Pow2(n - 1)

CounterMod == Pow2(CounterBits)

\* A token no aquireToken call of the protocol specification returns: the
\* "unregistered token 99" of a raw message.
BadToken == MaxToken + 1

Tokens == 0 .. BadToken

\* "no token": the message field is absent (null or undefined).
None == -1

Endpoints == {"X", "Y"}

Peer(e) == IF e = "X" THEN "Y" ELSE "X"

Threads == {"main", "worker"}

\* The endpoint whose code calls the handler's public methods directly: the
\* main thread. (Handle operations are made on either endpoint's handles.)
Callers == {"Y"}

----------------------------------------------------------------------------
(* Values.                                                                 *)

Undefined == "undefined"

\* The worker's export (a function with a property x) and what it returns;
\* a plain object of the caller and the clone solid() makes of it.
\* "handle" stands for a remote handle that unpack made of a reference.
Objects == {"root", "res", "obj", "clone"}

Errors == {"ReferenceError: Invalid Id", "TypeError: Invalid type",
           "TypeError: not an object", "TypeError: Key is not defined.",
           "TypeError: Arguments are not defined.",
           "TypeError: not a function", "Error: thrown"}

Boxed == {"Number(42)", "Object()"}

\* PrimitiveTypes: undefined | null | boolean | number | bigint | string
Primitives == {Undefined, "null", "true", "false", "0", "42", "7n", "''", "str"}

Keys == {"x", "y"}

\* typeof value
TypeOf(v) ==
    CASE v = Undefined -> "undefined"
      [] v \in {"0", "42"} -> "number"
      [] v \in {"true", "false"} -> "boolean"
      [] v = "7n" -> "bigint"
      [] v \in {"''", "str"} -> "string"
      [] v \in {"root", "handle"} -> "function"
      [] OTHER -> "object"

\* !value
Falsy(v) == v \in {Undefined, "null", "false", "0", "''"}

isReferenceType(v) == ~Falsy(v) /\ TypeOf(v) \in {"object", "function"}

\* value instanceof Error
IsError(v) == v \in Errors

\* value instanceof Function
IsFunction(v) == v = "root"

\* new Object(value) for a value that is not reference-typed
Box(v) == IF v = "42" THEN "Number(42)" ELSE "Object()"

\* A value as the solid marks see it: the remote handle (proxy) h, or the
\* plain value o.
ProxyRef(h) == [h |-> h, o |-> ""]
PlainRef(o) == [h |-> 0, o |-> o]

\* isReferenceType(value) for such a value
IsReference(v) == v.h # 0 \/ isReferenceType(v.o)

----------------------------------------------------------------------------
(* aquireToken, step by step: `++this.counter[0]` on a Uint32Array over a  *)
(* SharedArrayBuffer is a plain read, an addition and a plain write (no    *)
(* Atomics), and the value of the expression is the incremented number     *)
(* before its conversion to 32 bits. The main-thread handler and the       *)
(* worker-thread handler share the buffer.                                 *)

TokInit ==
    /\ tpc = [t \in Threads |-> "idle"]
    /\ treg = [t \in Threads |-> 0]
    /\ tret = [t \in Threads |-> << >>]

TotalCalls == Len(tret["main"]) + Len(tret["worker"])

\* The read of counter[0].
TokRead(t) ==
    /\ tpc[t] = "idle"
    /\ TotalCalls + Cardinality({u \in Threads : tpc[u] = "read"}) < MaxCalls
    /\ treg' = [treg EXCEPT ![t] = counter]
    /\ tpc' = [tpc EXCEPT ![t] = "read"]
    /\ UNCHANGED << counter, tret, protoVars, symVars, cbVars, cells >>

\* A variant that returns the cell's content after the store.
IncrementedStored(old) == (old + 1) % CounterMod

\* The value aquireToken returns after reading old.
Incremented(old) == old + 1

\* The write of the incremented value (stored modulo the cell's width) and
\* the return.
TokWrite(t) ==
    /\ tpc[t] = "read"
    /\ counter' = Incremented(treg[t]) % CounterMod
    /\ tret' = [tret EXCEPT ![t] = Append(@, Incremented(treg[t]))]
    /\ tpc' = [tpc EXCEPT ![t] = "idle"]
    /\ UNCHANGED << treg, protoVars, symVars, cbVars, cells >>

----------------------------------------------------------------------------
(* Registry entries, futures, wire values, messages.                       *)

\* key2Obj holds promises: one already resolved with a value
\* (Promise.resolve(obj)), or the promise of a sendAndWait request.
NoEntry == [k |-> "none", v |-> "", t |-> None]
ValEntry(v) == [k |-> "val", v |-> v, t |-> None]
ReqEntry(t) == [k |-> "req", v |-> "", t |-> t]

\* A promise: its state, its value or reason and (history, for the promise
\* of a sendAndWait) the kind and the source token of its request. A promise
\* resolved with another promise or with a thenable stays pending and
\* follows it: follow is the correlation token of the promise it follows.
Promise(st, v) == [st |-> st, v |-> v, type |-> "", from |-> None,
                   follow |-> None]
NoFuture == Promise("none", "")
Pending == Promise("pending", "")
Fulfilled(v) == Promise("fulfilled", v)
Rejected(r) == Promise("rejected", r)

\* PackedTypes: a primitive, or a tagged record.
Prim(v) == [type |-> "prim", key |-> None, val |-> v]
PackedValue(v) == [type |-> "value", key |-> None, val |-> v]
PackedError(v) == [type |-> "error", key |-> None, val |-> v]
PackedThrow == [type |-> "throw", key |-> None, val |-> "TypeError: not an object"]
PackedToken(type, key) == [type |-> type, key |-> key, val |-> ""]
PackedSymbol(k) == [type |-> "symbol", key |-> k.n, val |-> k.name]

\* Message: absent fields are None (tokens), "" (key), hasArgs = FALSE
\* (args) and Prim(Undefined) (thisArg, value; reason travels in value).
Msg(type, token, from, into, key, hasArgs, args, value) ==
    [type |-> type, token |-> token, from |-> from, into |-> into,
     key |-> key, hasArgs |-> hasArgs, thisArg |-> Prim(Undefined),
     args |-> args, value |-> value]

NoMsg == Msg("", None, None, None, "", FALSE, << >>, Prim(Undefined))

Requests == {"prepare", "assign", "delete", "apply", "construct", "resolve"}

Replies == {"success", "failed"}

\* What a step reports: the operation, the endpoint, the handle (or value)
\* it was applied to, how it ended, the value it ended with, the message it
\* dispatched or sent first, and how many messages it handed to send().
Obs(op, e, id, out, v, m, sent) ==
    [op |-> op, e |-> e, id |-> id, out |-> out, v |-> v,
     type |-> m.type, tok |-> m.token, from |-> m.from, into |-> m.into,
     args |-> m.args, sent |-> sent]

----------------------------------------------------------------------------
(* The handler's methods, as functions of a world: the part of the state   *)
(* one endpoint's code can touch while it runs.                            *)
(*   c: the counter cell      k: key2Obj      o: obj2Key                   *)
(*   r: resolvers             f: the futures  h: the handle instances      *)
(*   s: solidObjects          hp: the heap    g: globalSolidObjects        *)
(*   own: the handler still has its own properties                         *)
(*   out: the messages handed to send(), in order                          *)

World(e) == [c |-> counter, k |-> key2Obj[e], o |-> obj2Key[e],
             r |-> resolvers[e], f |-> fut[e], s |-> solidObjects[e],
             g |-> globalSolidObjects[e], own |-> own[e],
             h |-> handles, hp |-> heap, out |-> << >>]

\* aquireToken(): ++this.counter[0]
aquireToken(w) ==
    [w |-> [w EXCEPT !.c = Incremented(w.c) % CounterMod], v |-> Incremented(w.c)]

\* send(data): port.postMessage(data)
send(w, m) == [w EXCEPT !.out = Append(@, m)]

\* storeLocal(id, obj)
storeLocal(w, id, obj) ==
    LET w1 == [w EXCEPT !.k[id] = ValEntry(obj)]
    IN  IF isReferenceType(obj) /\ obj \in DOMAIN w.o
        THEN [w1 EXCEPT !.o[obj] = id]
        ELSE w1

\* A variant without the reverse lookup.
registerTokenAgain(w, obj, token) ==
    LET a == IF token = None THEN aquireToken(w) ELSE [w |-> w, v |-> token]
    IN  [w |-> storeLocal(a.w, a.v, obj), v |-> a.v]

\* registerToken(obj, token) for a value that is not a remote handle
registerToken(w, obj, token) ==
    IF w.o[obj] # None
    THEN [w |-> w, v |-> w.o[obj]]
    ELSE LET a == IF token = None THEN aquireToken(w) ELSE [w |-> w, v |-> token]
         IN  [w |-> storeLocal(a.w, a.v, obj), v |-> a.v]

\* sendAndWait(data): the promise is identified by its correlation token
sendAndWait(w, m) ==
    LET a == aquireToken(w)
        w1 == [a.w EXCEPT !.r = @ \cup {a.v},
                          !.f[a.v] = [Pending EXCEPT !.type = m.type, !.from = m.from]]
    IN  [w |-> send(w1, [m EXCEPT !.token = a.v]), v |-> a.v]

\* A remote-handle instance (a proxy): its endpoint, its token, its
\* WrapperHandler wr (named by the first proxy made for it), the wrapper's
\* resolvePromise rp, whether the proxy is revoked, and (history) the
\* message whose sending created it.
Handle(e, token, wr, by) ==
    [ep |-> e, tok |-> token, wr |-> wr, rp |-> NoEntry, revoked |-> FALSE,
     by |-> by]

\* A variant that keeps one handle for each token of an endpoint.
createShadowCached(w, e, token, by) ==
    IF \E i \in DOMAIN w.h : w.h[i].ep = e /\ w.h[i].tok = token
    THEN [w |-> w,
          v |-> CHOOSE i \in DOMAIN w.h : w.h[i].ep = e /\ w.h[i].tok = token]
    ELSE [w |-> [w EXCEPT !.h = Append(@, Handle(e, token, Len(w.h) + 1, by))],
          v |-> Len(w.h) + 1]

\* createShadow(handler, token): new WrapperHandler(handler, token)
\* .resolve(true) makes a new revocable proxy and registers its revoke
\* with onDispose.
createShadowBy(w, e, token, by) ==
    LET id == Len(w.h) + 1
    IN  [w |-> [w EXCEPT !.h = Append(@, Handle(e, token, id, by))], v |-> id]

createShadow(w, e, token) == createShadowBy(w, e, token, NoMsg)

\* A variant that asks the peer on every call and keeps nothing.
resolveRemoteUncached(w, token) ==
    LET s == sendAndWait(w, Msg("resolve", None, token, None, "", FALSE,
                                << >>, Prim(Undefined)))
    IN  [w |-> s.w, v |-> ReqEntry(s.v)]

\* resolveRemote(token, false)
resolveRemote(w, token) ==
    IF w.k[token].k # "none"
    THEN [w |-> w, v |-> w.k[token]]
    ELSE LET s == sendAndWait(w, Msg("resolve", None, token, None, "", FALSE,
                                     << >>, Prim(Undefined)))
         IN  [w |-> [s.w EXCEPT !.k[token] = ReqEntry(s.v)], v |-> ReqEntry(s.v)]

----------------------------------------------------------------------------
(* The value marshaller.                                                   *)

\* The exported solid(source) for a source that is not a remote handle:
\* a reference-typed source is cloned and the clone goes into
\* globalSolidObjects.
solid(w, v) ==
    IF ~isReferenceType(v) THEN [w |-> w, v |-> v]
    ELSE [w |-> [w EXCEPT !.g = @ \cup {"clone"}], v |-> "clone"]

\* A variant whose forceClone wraps every value that is not an error,
\* primitives included, in a value entry.
packCloneWraps(w, v, clone) ==
    IF clone /\ ~IsError(v) THEN [w |-> w, v |-> PackedValue(v)]
    ELSE IF TypeOf(v) \notin {"object", "function"} \/ Falsy(v)
    THEN [w |-> w, v |-> Prim(v)]
    ELSE IF IsError(v) THEN [w |-> w, v |-> PackedError(v)]
    ELSE IF ~w.own THEN [w |-> w, v |-> PackedThrow]
    ELSE IF PlainRef(v) \in w.s \/ v \in w.g THEN [w |-> w, v |-> PackedValue(v)]
    ELSE LET r == registerToken(w, v, None)
         IN  [w |-> r.w, v |-> PackedToken("shadow", r.v)]

\* pack(value, clone) for a value that is not a remote handle and not a
\* symbol. this.isSolid(value) reads this.solidObjects, which throws a
\* TypeError once dispose() has deleted it.
pack(w, v, clone) ==
    IF TypeOf(v) \notin {"object", "function"} \/ Falsy(v)
    THEN [w |-> w, v |-> Prim(v)]
    ELSE IF IsError(v) THEN [w |-> w, v |-> PackedError(v)]
    ELSE IF clone THEN [w |-> w, v |-> PackedValue(v)]
    ELSE IF ~w.own THEN [w |-> w, v |-> PackedThrow]
    ELSE IF PlainRef(v) \in w.s \/ v \in w.g THEN [w |-> w, v |-> PackedValue(v)]
    ELSE LET r == registerToken(w, v, None)
         IN  [w |-> r.w, v |-> PackedToken("shadow", r.v)]

\* pack(value) for a remote handle h: registerToken returns handler.id
packHandle(w, h) ==
    PackedToken(IF ProxyRef(h) \in w.s THEN "solid" ELSE "shadow", w.h[h].tok)

\* pack(value, clone) for a remote handle h
packProxy(w, h, clone) ==
    IF clone THEN PackedValue("handle")
    ELSE IF ~w.own THEN PackedThrow
    ELSE packHandle(w, h)

\* A variant that makes a remote handle of a solid reference as well.
unpackLazy(w, e, pv) ==
    CASE pv.type \in {"shadow", "solid"} ->
            [w |-> createShadow(w, e, pv.key).w, v |-> "handle", p |-> NoEntry]
      [] OTHER -> [w |-> w, v |-> pv.val, p |-> NoEntry]

\* unpack(value): v is the value, p the promise when the value is one
unpack(w, e, pv) ==
    CASE pv.type = "shadow" ->
            [w |-> createShadow(w, e, pv.key).w, v |-> "handle", p |-> NoEntry]
      [] pv.type = "solid" ->
            LET r == resolveRemote(w, pv.key)
            IN  [w |-> r.w, v |-> "", p |-> r.v]
      [] OTHER -> [w |-> w, v |-> pv.val, p |-> NoEntry]

\* src.map(this.unpack, this)
RECURSIVE unpackEach(_, _, _)
unpackEach(w, e, pvs) ==
    IF pvs = << >> THEN [w |-> w, items |-> << >>]
    ELSE LET u == unpack(w, e, Head(pvs))
             rest == unpackEach(u.w, e, Tail(pvs))
         IN  [w |-> rest.w, items |-> << [v |-> u.v, p |-> u.p] >> \o rest.items]

\* The state of a promise held in key2Obj or awaited by unpackAll.
Await(w, entry) ==
    IF entry.k = "req" THEN w.f[entry.t] ELSE Fulfilled(entry.v)

\* The state of Promise.all(wait) in unpackAll: rejected as soon as one
\* entry is, pending while one is, else fulfilled.
AwaitAll(w, items) ==
    LET st(i) == IF items[i].p.k = "none" THEN Fulfilled(items[i].v)
                 ELSE Await(w, items[i].p)
        I == 1 .. Len(items)
    IN  IF \E i \in I : st(i).st = "rejected"
        THEN Rejected(st(CHOOSE i \in I : st(i).st = "rejected").v)
        ELSE IF \E i \in I : st(i).st = "pending" THEN Pending
        ELSE [st |-> "fulfilled", vs |-> [i \in I |-> st(i).v]]

----------------------------------------------------------------------------
(* The registry's asynchronous lookup.                                     *)

\* ensureType(target, type): type "" is the absent (undefined) type
ensureType(target, type) ==
    CASE type = "Function" -> IsFunction(target)
      [] type \in {"undefined", "boolean", "number", "bigint", "string",
                   "symbol", "object", "function"} -> TypeOf(target) = type
      [] OTHER -> FALSE

\* The rest of resolveLocal once the registry's promise is in hand:
\* await it, check the kind, box a value that is not reference-typed.
awaitLocal(w, entry, type) ==
    LET a == Await(w, entry)
    IN  CASE a.st = "pending" -> [st |-> "pending", v |-> ""]
          [] a.st = "rejected" -> [st |-> "throw", v |-> a.v]
          [] OTHER ->
                IF ~ensureType(a.v, type)
                THEN [st |-> "throw", v |-> "TypeError: Invalid type"]
                ELSE [st |-> "ok",
                      v |-> IF isReferenceType(a.v) THEN a.v ELSE Box(a.v)]

\* A variant that is silent about an unbound token whatever the kind.
resolveLocalSilent(w, id, type) ==
    IF id = None \/ w.k[id].k = "none"
    THEN [st |-> "ok", v |-> Undefined]
    ELSE awaitLocal(w, w.k[id], type)

\* resolveLocal(id, type): pending while the registry's promise is
resolveLocal(w, id, type) ==
    IF id = None \/ w.k[id].k = "none"
    THEN IF type = "" THEN [st |-> "ok", v |-> Undefined]
         ELSE [st |-> "throw", v |-> "ReferenceError: Invalid Id"]
    ELSE awaitLocal(w, w.k[id], type)

----------------------------------------------------------------------------
(* The dispatcher: onReceive, from one await to the next. A task is an     *)
(* onReceive call: its message, where it is ("start"; "from": suspended    *)
(* inside resolveLocal; "args": suspended inside unpackAll), the resolved  *)
(* source value and the promises it awaits; sent counts the messages the   *)
(* call has handed to send() so far.                                       *)

Task(m, pc, from, wait) ==
    [m |-> m, pc |-> pc, from |-> from, wait |-> wait, sent |-> 0]

\* The calls in susp, having sent n messages so far.
HavingSent(susp, n) == [i \in 1 .. Len(susp) |-> [susp[i] EXCEPT !.sent = n]]

Done(w, out, v) == [w |-> w, susp |-> << >>, out |-> out, v |-> v]

Suspended(w, task) == [w |-> w, susp |-> << task >>, out |-> "suspended", v |-> ""]

\* The expected kind each branch passes to resolveLocal.
ExpectedKind(type) ==
    CASE type = "apply" -> "function"
      [] type = "construct" -> "Function"
      [] OTHER -> ""

\* Reflect.get(from, key)
Prop(hp, from, key) == IF from \in DOMAIN hp THEN hp[from][key] ELSE Undefined

\* The exported function: function root(a) { if (a === 42) throw new
\* Error('thrown'); if (arguments.length) root.y = a; return res; }
Invoke(hp, from, args) ==
    IF ~IsFunction(from)
    THEN [st |-> "throw", v |-> "TypeError: not a function", hp |-> hp]
    ELSE IF Len(args) > 0 /\ args[1] = "42"
    THEN [st |-> "throw", v |-> "Error: thrown", hp |-> hp]
    ELSE [st |-> "ok", v |-> "res",
          hp |-> IF Len(args) > 0 THEN [hp EXCEPT ![from]["y"] = args[1]] ELSE hp]

\* A variant that packs the reply's value before it stores the result.
FinishPackFirst(w, m, value, clone) ==
    LET p == pack(w, value, clone)
        w1 == IF m.into # None THEN storeLocal(p.w, m.into, value) ELSE p.w
    IN  IF m.token # None
        THEN Done(send(w1, Msg("success", m.token, None, None, "", FALSE,
                               << >>, p.v)), "success", value)
        ELSE Done(IF m.into # None THEN storeLocal(w, m.into, value) ELSE w,
                  "success", value)

\* The end of the try block: store under the destination token, then reply.
Finish(w, m, value, clone) ==
    LET w1 == IF m.into # None THEN storeLocal(w, m.into, value) ELSE w
        p == pack(w1, value, clone)
    IN  IF m.token # None
        THEN Done(send(p.w, Msg("success", m.token, None, None, "", FALSE,
                                << >>, p.v)), "success", value)
        ELSE Done(w1, "success", value)

\* A variant whose catch block answers whether or not the message carried
\* a correlation token.
ThrowAnswers(w, m, err) ==
    Done(send(w, Msg("failed", m.token, None, None, "", FALSE, << >>,
                     pack(w, err, FALSE).v)), "failed", err)

\* The catch block.
Throw(w, m, err) ==
    IF m.token # None
    THEN Done(send(w, Msg("failed", m.token, None, None, "", FALSE, << >>,
                          pack(w, err, FALSE).v)), "failed", err)
    ELSE Done(w, "failed", err)

\* The target operation, once the source and the arguments are resolved.
Operate(w, m, from, vals) ==
    CASE m.type = "assign" ->
            IF m.key = "" THEN Throw(w, m, "TypeError: Key is not defined.")
            ELSE IF ~isReferenceType(from)
            THEN Throw(w, m, "TypeError: not an object")
            ELSE Finish(IF from \in DOMAIN w.hp
                        THEN [w EXCEPT !.hp[from][m.key] = vals[1]] ELSE w,
                        m, vals[1], FALSE)
      [] m.type = "apply" ->
            LET r == Invoke(w.hp, from, Tail(vals))
            IN  IF r.st = "throw" THEN Throw(w, m, r.v)
                ELSE Finish([w EXCEPT !.hp = r.hp], m, r.v, FALSE)
      [] OTHER ->
            LET r == Invoke(w.hp, from, vals)
            IN  IF r.st = "throw" THEN Throw(w, m, r.v)
                ELSE Finish([w EXCEPT !.hp = r.hp], m, r.v, FALSE)

\* await Promise.all(wait) in unpackAll, and what follows it.
AfterArgs(w, m, from, items) ==
    LET a == AwaitAll(w, items)
    IN  CASE a.st = "pending" -> Suspended(w, Task(m, "args", from, items))
          [] a.st = "rejected" -> Throw(w, m, a.v)
          [] OTHER -> Operate(w, m, from, a.vs)

\* The branch of the switch after its resolveLocal.
Branch(w, e, m, from) ==
    CASE m.type = "prepare" ->
            IF m.key = "" THEN Throw(w, m, "TypeError: Key is not defined.")
            ELSE IF ~isReferenceType(from)
            THEN Throw(w, m, "TypeError: not an object")
            ELSE Finish(w, m, Prop(w.hp, from, m.key), FALSE)
      [] m.type = "delete" ->
            IF m.key = "" THEN Throw(w, m, "TypeError: Key is not defined.")
            ELSE IF ~isReferenceType(from)
            THEN Throw(w, m, "TypeError: not an object")
            ELSE Finish(IF from \in DOMAIN w.hp
                        THEN [w EXCEPT !.hp[from][m.key] = Undefined] ELSE w,
                        m, Undefined, FALSE)
      [] m.type = "resolve" -> Finish(w, m, from, TRUE)
      [] m.type = "assign" ->
            LET u == unpackEach(w, e, << m.value >>)
            IN  AfterArgs(u.w, m, from, u.items)
      [] m.type = "apply" ->
            IF ~m.hasArgs THEN Throw(w, m, "TypeError: Arguments are not defined.")
            ELSE LET u == unpackEach(w, e, << m.thisArg >> \o m.args)
                 IN  AfterArgs(u.w, m, from, u.items)
      [] OTHER ->
            IF ~m.hasArgs THEN Throw(w, m, "TypeError: Arguments are not defined.")
            ELSE LET u == unpackEach(w, e, m.args)
                 IN  AfterArgs(u.w, m, from, u.items)

\* WrapperHandler.resolve(): the wrapper's resolvePromise, made on first use
resolve(w, h) ==
    LET wr == w.h[h].wr
    IN  IF w.h[wr].rp.k # "none" THEN w
        ELSE LET r == resolveRemote(w, w.h[wr].tok)
             IN  [r.w EXCEPT !.h[wr].rp = r.v]

\* The promise at the end of the chain promise t follows.
RECURSIVE Root(_, _)
Root(f, t) ==
    IF f[t].st = "pending" /\ f[t].follow # None THEN Root(f, f[t].follow) ELSE t

\* Promise t is settled, and with it every promise that follows it.
SettleFuture(f, t, st, v) ==
    [u \in DOMAIN f |->
        IF f[u].st = "pending" /\ Root(f, u) = t
        THEN [f[u] EXCEPT !.st = st, !.v = v] ELSE f[u]]

\* resolve(promise) of the future under token t: it takes the state of a
\* settled promise and follows a pending one.
Adopt(w, t, entry) ==
    LET a == Await(w, entry)
    IN  IF a.st = "pending" THEN [w EXCEPT !.f[t].follow = entry.t]
        ELSE [w EXCEPT !.f = SettleFuture(w.f, t, a.st, a.v)]

\* The job resolve(handle) queues: handle.then(...) calls the wrapper's
\* resolve() and the future follows its promise.
Thenable(w, t, h) ==
    LET w1 == resolve(w, h)
    IN  Adopt(w1, t, w1.h[w1.h[h].wr].rp)

\* A variant whose popResolver leaves the entry in the table.
SettleKeepEntry(w, e, m) ==
    IF m.token = None \/ m.token \notin w.r THEN [w |-> w, then |-> None]
    ELSE LET u == unpack(w, e, m.value)
         IN  [w |-> [u.w EXCEPT !.f = SettleFuture(u.w.f, m.token,
                        IF m.type = "failed" THEN "rejected" ELSE "fulfilled", u.v)],
              then |-> None]

\* resolver.resolve(u) and resolver.reject(u) for the unpacked value or
\* reason u (u.w is the world after unpack).
SettleWith(m, u) ==
    CASE m.type = "failed" ->
            [w |-> [u.w EXCEPT !.f = SettleFuture(u.w.f, m.token, "rejected", u.v)],
             then |-> None]
      [] m.value.type = "shadow" ->
            [w |-> u.w, then |-> Len(u.w.h)]
      [] m.value.type = "solid" ->
            [w |-> Adopt(u.w, m.token, u.p), then |-> None]
      [] OTHER ->
            [w |-> [u.w EXCEPT !.f = SettleFuture(u.w.f, m.token, "fulfilled", u.v)],
             then |-> None]

\* popResolver(token)?.resolve(unpack(value)) and ?.reject(unpack(reason)):
\* nothing is unpacked when no resolver is popped. then is the handle the
\* future was resolved with, if it was.
Settle(w, e, m) ==
    IF m.token = None \/ m.token \notin w.r THEN [w |-> w, then |-> None]
    ELSE SettleWith(m, unpack([w EXCEPT !.r = @ \ {m.token}], e, m.value))

\* The dispatch d of a reply, followed by the job of the handle s.then.
ThenJob(m, s, d) == [d EXCEPT !.w = Thenable(d.w, m.token, s.then)]

\* The rest of onReceive for a reply, after the settle s: the success it
\* sends for a reply that carries a token, and then the job a future
\* resolved with a handle has queued.
Replied(m, s) ==
    IF s.then = None THEN Finish(s.w, m, Undefined, FALSE)
    ELSE ThenJob(m, s, Finish(s.w, m, Undefined, FALSE))

\* The rest of onReceive for a request, after its resolveLocal returned r.
Resolved(w, e, task, r) ==
    CASE r.st = "pending" ->
            Suspended(w, Task(task.m, "from", "",
                IF task.pc = "from" THEN task.wait
                ELSE << [v |-> "", p |-> w.k[task.m.from]] >>))
      [] r.st = "throw" -> Throw(w, task.m, r.v)
      [] OTHER -> Branch(w, e, task.m, r.v)

\* onReceive, from task.pc up to its next suspension or its end.
Run(w, e, task) ==
    IF task.m.type \in Replies THEN Replied(task.m, Settle(w, e, task.m))
    ELSE IF task.pc = "args" THEN AfterArgs(w, task.m, task.from, task.wait)
    ELSE Resolved(w, e, task,
                  IF task.pc = "from"
                  THEN awaitLocal(w, task.wait[1].p, ExpectedKind(task.m.type))
                  ELSE resolveLocal(w, task.m.from, ExpectedKind(task.m.type)))

\* A suspended task can go on: what it awaits is settled.
Ready(w, task) ==
    IF task.pc = "args" THEN AwaitAll(w, task.wait).st # "pending"
    ELSE Await(w, task.wait[1].p).st # "pending"

\* A variant that hands the message to the transport before it records the
\* settle-pair.
sendAndWaitSendsFirst(w, e, m, answer) ==
    LET a == aquireToken(w)
        d == Run(a.w, e, Task([answer EXCEPT !.token = a.v], "start", "", << >>))
    IN  [w |-> [d.w EXCEPT !.r = @ \cup {a.v},
                           !.f[a.v] = [Pending EXCEPT !.type = m.type,
                                                      !.from = m.from]],
         v |-> a.v]

\* sendAndWait(data) on a transport whose send(data) hands the answer to the
\* request to onReceive before it returns; the transport passes every other
\* message on to the peer.
sendAndWaitAnswered(w, e, m, answer) ==
    LET a == aquireToken(w)
        w1 == [a.w EXCEPT !.r = @ \cup {a.v},
                          !.f[a.v] = [Pending EXCEPT !.type = m.type,
                                                     !.from = m.from]]
    IN  [w |-> Run(w1, e, Task([answer EXCEPT !.token = a.v], "start", "", << >>)).w,
         v |-> a.v]

----------------------------------------------------------------------------
(* Symbols. A symbol is one the endpoint's own code created (unique), one  *)
(* toSymbol created with Symbol(key) (made), or one of the global registry *)
(* (Symbol.for(name)); a key on the wire is a number or a string.          *)

NoSym == [kind |-> "none", e |-> "", n |-> 0, name |-> ""]
Unique(e, n) == [kind |-> "unique", e |-> e, n |-> n, name |-> ""]
Made(e, key) == [kind |-> "made", e |-> e, n |-> key, name |-> ""]
Global(name) == [kind |-> "global", e |-> "", n |-> 0, name |-> name]

\* The symbols an endpoint's code has of its own, and the registered names.
OwnSymbols(e) == {Unique(e, 1), Unique(e, 2)}
Names == {"iterator"}

Symbols == UNION {OwnSymbols(e) : e \in Endpoints}
           \cup {Made(e, k) : e \in Endpoints, k \in Tokens}
           \cup {Global(name) : name \in Names}

NumKey(k) == [n |-> k, name |-> ""]
NameKey(name) == [n |-> None, name |-> name]
NoKey == NumKey(None)

\* The thread an endpoint's handler runs on.
ThreadOf(e) == IF e = "Y" THEN "main" ELSE "worker"

SymInit ==
    /\ key2Sym = [e \in Endpoints |-> [k \in Tokens |-> NoSym]]
    /\ sym2Key = [e \in Endpoints |-> [x \in Symbols |-> None]]
    /\ tsym = [t \in Threads |-> NoSym]

\* The callbacks user code hands to onDispose; one of them raises.
Callbacks == {"cb", "cbRaises", "cbLast"}
Raises(c) == c = "cbRaises"

CbInit ==
    /\ disposableCallbacks = [e \in Endpoints |-> << >>]
    /\ invoked = [e \in Endpoints |-> [c \in Callbacks |->
                    [n |-> 0, tables |-> FALSE]]]

\* Symbol.keyFor(sym): the registered name, or undefined
keyFor(sym) == IF sym.kind = "global" THEN NameKey(sym.name) ELSE NoKey

\* A call of fromSymbol or toSymbol ends (or, for fromSymbol, enters
\* aquireToken): what it reports. key and sym are the call's argument and
\* result.
SymObs(op, e, out, key, sym) ==
    Obs(op, e, None, out, "", NoMsg, 0) @@ [key |-> key, sym |-> sym]

\* fromSymbol(sym) up to its return or, for a symbol without a key, up to
\* the read of the counter cell inside aquireToken.
FromSymbol(e) ==
    \E sym \in Symbols :
        LET t == ThreadOf(e) IN
        /\ own[e]
        /\ sym.kind = "unique" => sym \in OwnSymbols(e)
        /\ sym.kind = "made" => sym.e = e /\ sym2Key[e][sym] # None
        /\ tpc[t] = "idle"
        /\ ops < MaxApi
        /\ ops' = ops + 1
        /\ IF keyFor(sym) # NoKey
           THEN /\ last' = SymObs("fromSymbol", e, "ok", keyFor(sym), sym)
                /\ UNCHANGED << tpc, treg, tsym >>
           ELSE IF sym2Key[e][sym] # None
           THEN /\ last' = SymObs("fromSymbol", e, "ok",
                                  NumKey(sym2Key[e][sym]), sym)
                /\ UNCHANGED << tpc, treg, tsym >>
           ELSE /\ tpc' = [tpc EXCEPT ![t] = "read"]
                /\ treg' = [treg EXCEPT ![t] = counter]
                /\ tsym' = [tsym EXCEPT ![t] = sym]
                /\ last' = SymObs("fromSymbol", e, "acquiring", NoKey, sym)
        /\ UNCHANGED << counter, key2Obj, obj2Key, resolvers, fut,
                        solidObjects, globalSolidObjects, handles, chan,
                        tasks, heap, own, disposed, tret, key2Sym, sym2Key,
                        cbVars, cells >>

\* The rest of fromSymbol: the write of the counter cell, the return of
\* aquireToken, key2Sym.set(key, sym) and sym2Key.set(sym, key).
FromSymbolReturn(e) ==
    LET t == ThreadOf(e)
        key == Incremented(treg[t])
    IN  /\ own[e]
        /\ tpc[t] = "read"
        /\ tsym[t] # NoSym
        /\ key <= MaxToken
        /\ counter' = key % CounterMod
        /\ tret' = [tret EXCEPT ![t] = Append(@, key)]
        /\ tpc' = [tpc EXCEPT ![t] = "idle"]
        /\ key2Sym' = [key2Sym EXCEPT ![e][key] = tsym[t]]
        /\ sym2Key' = [sym2Key EXCEPT ![e][tsym[t]] = key]
        /\ tsym' = [tsym EXCEPT ![t] = NoSym]
        /\ last' = SymObs("fromSymbol", e, "ok", NumKey(key), tsym[t])
        /\ UNCHANGED << key2Obj, obj2Key, resolvers, fut, solidObjects,
                        globalSolidObjects, handles, chan, tasks, heap, own,
                        disposed, ops, treg, cbVars, cells >>

\* The keys the peer's fromSymbol has returned: what can arrive on the wire.
WireKeys(e) ==
    {NameKey(name) : name \in Names}
    \cup {NumKey(sym2Key[Peer(e)][x]) :
            x \in {x \in Symbols : sym2Key[Peer(e)][x] # None}}

\* toSymbol(key)
ToSymbol(e) ==
    \E key \in WireKeys(e) :
        LET found == key2Sym[e][key.n]
            sym == IF key.n = None THEN Global(key.name)
                   ELSE IF found # NoSym THEN found
                   ELSE Made(e, key.n)
        IN  /\ own[e]
            /\ tpc[ThreadOf(e)] = "idle"
            /\ ops < MaxApi
            /\ ops' = ops + 1
            /\ IF key.n # None /\ found = NoSym
               THEN /\ key2Sym' = [key2Sym EXCEPT ![e][key.n] = sym]
                    /\ sym2Key' = [sym2Key EXCEPT ![e][sym] = key.n]
               ELSE UNCHANGED << key2Sym, sym2Key >>
            /\ last' = SymObs("toSymbol", e, "ok", key, sym)
            /\ UNCHANGED << counter, key2Obj, obj2Key, resolvers, fut,
                            solidObjects, globalSolidObjects, handles, chan,
                            tasks, heap, own, disposed, tokVars, tsym,
                            cbVars, cells >>

----------------------------------------------------------------------------
(* The state after load(): the worker has registered its export under the  *)
(* bootstrap token 0, the main thread holds the handle                     *)
(* resolveRemote(0, true), the shared counter is zero.                     *)

ProtoInit ==
    /\ key2Obj = [e \in Endpoints |-> [t \in Tokens |->
                    IF e = "X" /\ t = 0 THEN ValEntry("root") ELSE NoEntry]]
    /\ obj2Key = [e \in Endpoints |-> [o \in Objects \cup Boxed |->
                    IF e = "X" /\ o = "root" THEN 0 ELSE None]]
    /\ resolvers = [e \in Endpoints |-> {}]
    /\ fut = [e \in Endpoints |-> [t \in Tokens |-> NoFuture]]
    /\ solidObjects = [e \in Endpoints |-> {}]
    /\ globalSolidObjects = [e \in Endpoints |-> {}]
    /\ handles = << Handle("Y", 0, 1, NoMsg) >>
    /\ chan = [e \in Endpoints |-> << >>]
    /\ tasks = [e \in Endpoints |-> << >>]
    /\ heap = [o \in Objects |-> [k \in Keys |->
                    IF k = "x" THEN "42" ELSE Undefined]]
    /\ own = [e \in Endpoints |-> TRUE]
    /\ disposed = [e \in Endpoints |-> FALSE]
    /\ last = Obs("init", "X", None, "", "", NoMsg, 0)
    /\ ops = 0

CellsInit == cells = [e \in Endpoints |-> 0]

Init == counter = 0 /\ ProtoInit /\ TokInit /\ SymInit /\ CbInit /\ CellsInit

\* The world w of endpoint e becomes the state; inbox is e's queue.
Commit(e, w, inbox) ==
    /\ w.c >= counter
    /\ w.c <= MaxToken
    /\ counter' = w.c
    /\ key2Obj' = [key2Obj EXCEPT ![e] = w.k]
    /\ obj2Key' = [obj2Key EXCEPT ![e] = w.o]
    /\ resolvers' = [resolvers EXCEPT ![e] = w.r]
    /\ fut' = [fut EXCEPT ![e] = w.f]
    /\ solidObjects' = [solidObjects EXCEPT ![e] = w.s]
    /\ globalSolidObjects' = [globalSolidObjects EXCEPT ![e] = w.g]
    /\ handles' = w.h
    /\ heap' = w.hp
    /\ chan' = [chan EXCEPT ![e] = inbox, ![Peer(e)] = @ \o w.out]

SomeReady(e) == \E i \in 1 .. Len(tasks[e]) : Ready(World(e), tasks[e][i])

RemoveAt(seq, i) == SubSeq(seq, 1, i - 1) \o SubSeq(seq, i + 1, Len(seq))

\* onReceive(data) on a handler whose properties dispose() deleted: the
\* first read of this.key2Obj or this.resolvers throws a TypeError, and in
\* the catch block this.send throws again for a message with a token,
\* since this.port is gone. Nothing changes and nothing is sent.
Lost(w, m) ==
    Done(w, IF m.token = None THEN "failed" ELSE "throw", "TypeError: not an object")

\* A run r of the onReceive call for message m has come to a suspension or
\* to its end: its world becomes the state. inbox is the endpoint's queue
\* and others its other suspended calls after the step, sent the number of
\* messages the call had sent before.
Ran(e, m, inbox, others, sent, r) ==
    /\ Commit(e, r.w, inbox)
    /\ tasks' = [tasks EXCEPT ![e] = others \o HavingSent(r.susp, sent + Len(r.w.out))]
    /\ last' = Obs("onReceive", e, None, r.out, r.v, m, Len(r.w.out))
               @@ [total |-> sent + Len(r.w.out)]
    /\ UNCHANGED << own, disposed, ops, tokVars, symVars, cbVars, cells >>

\* The port's 'message' event: onReceive(data) runs up to its first
\* suspension. Promise reactions run before the next event is delivered.
Receive(e) ==
    /\ chan[e] # << >>
    /\ ~SomeReady(e)
    /\ Ran(e, Head(chan[e]), Tail(chan[e]), tasks[e], 0,
           IF own[e] THEN Run(World(e), e, Task(Head(chan[e]), "start", "", << >>))
           ELSE Lost(World(e), Head(chan[e])))

\* A suspended onReceive goes on after the promise it awaits has settled.
Resume(e) ==
    /\ own[e]
    /\ \E i \in 1 .. Len(tasks[e]) :
        /\ Ready(World(e), tasks[e][i])
        /\ Ran(e, tasks[e][i].m, chan[e], RemoveAt(tasks[e], i),
               tasks[e][i].sent, Run(World(e), e, tasks[e][i]))

----------------------------------------------------------------------------
(* Local operations: the traps of a remote handle (WrapperHandler) and the *)
(* handler's public methods. A revoked proxy throws a TypeError from every *)
(* trap; a handler whose own properties were deleted throws as soon as it  *)
(* reads one (counter, port, key2Obj, solidObjects, ...).                  *)

HandleIds == DOMAIN handles

\* The operation ended normally in world w.
Returns(e, w, obs) ==
    /\ ops < MaxOps
    /\ ops' = ops + 1
    /\ Commit(e, w, chan[e])
    /\ last' = obs
    /\ UNCHANGED << tasks, own, disposed, tokVars, symVars, cbVars, cells >>

\* The operation threw before it changed anything.
Throws(obs) ==
    /\ ops < MaxOps
    /\ ops' = ops + 1
    /\ last' = obs
    /\ UNCHANGED << counter, key2Obj, obj2Key, resolvers, fut, solidObjects,
                    globalSolidObjects,
                    handles, chan, tasks, heap, own, disposed, tokVars, symVars,
                    cbVars, cells >>

\* A trap of handle h cannot run: the proxy is revoked, or the handler's
\* properties are gone.
Dead(h) == handles[h].revoked \/ ~own[handles[h].ep]

\* The proxy's target is Object.assign(function () { }, baseTypeMixin): the
\* keys Reflect.has(target, key) finds are then, the function's own length,
\* name and prototype, and what it inherits (toString among others).
TargetKeys == {"then", "length", "name", "prototype", "toString"}

\* Reflect.has(target, key)
ReflectHas(key) == key \in TargetKeys

\* WrapperHandler.get: a key the target has is answered by the target
get(w, e, h, key) ==
    LET a == aquireToken(w)
        m == Msg("prepare", None, w.h[h].tok, a.v, key, FALSE, << >>, Prim(Undefined))
    IN  IF ReflectHas(key) THEN [w |-> w, m |-> NoMsg]
        ELSE [w |-> createShadowBy(send(a.w, m), e, a.v, m).w, m |-> m]

\* WrapperHandler.set
\* WrapperHandler.set, with the value already packed
set(w, e, h, key, value) ==
    LET m == Msg("assign", None, w.h[h].tok, None, key, FALSE, << >>, value)
    IN  IF ReflectHas(key) THEN [w |-> w, m |-> NoMsg]
        ELSE [w |-> send(w, m), m |-> m]

\* WrapperHandler.deleteProperty
deleteProperty(w, e, h, key) ==
    LET m == Msg("delete", None, w.h[h].tok, None, key, FALSE, << >>, Prim(Undefined))
    IN  IF ReflectHas(key) THEN [w |-> w, m |-> NoMsg]
        ELSE [w |-> send(w, m), m |-> m]

\* WrapperHandler.apply, with the arguments already packed
apply(w, e, h, args) ==
    LET a == aquireToken(w)
        m == Msg("apply", None, w.h[h].tok, a.v, "", TRUE, args, Prim(Undefined))
    IN  [w |-> createShadowBy(send(a.w, m), e, a.v, m).w, m |-> m]

\* WrapperHandler.construct
construct(w, e, h, args) ==
    LET a == aquireToken(w)
        m == Msg("construct", None, w.h[h].tok, a.v, "", TRUE, args, Prim(Undefined))
    IN  [w |-> createShadowBy(send(a.w, m), e, a.v, m).w, m |-> m]

\* WrapperHandler.makeSolid for a remote handle that is not solid yet: a
\* second proxy of the same WrapperHandler, marked solid
makeSolid(w, e, h) ==
    LET id == Len(w.h) + 1
    IN  [w EXCEPT !.h = Append(@, Handle(e, w.h[h].tok, w.h[h].wr, NoMsg)),
                  !.s = @ \cup {ProxyRef(id)}]

\* The arguments the model invokes handle h with: none, the number 42,
\* the handle itself, or solid(g) for one of the endpoint's handles g.
ArgChoices(h) ==
    {[kind |-> "none", g |-> 0], [kind |-> "prim", g |-> 0],
     [kind |-> "shadow", g |-> h]} \cup
    {[kind |-> "solid", g |-> g] :
        g \in {g \in HandleIds : handles[g].ep = handles[h].ep}}

\* The values the model assigns through handle h: 42 and solid(h).
SetChoices(h) == {[kind |-> "prim", g |-> 0], [kind |-> "solid", g |-> h]}

\* The world after the argument expression is evaluated: solid(g) makes a
\* solid proxy unless g is one.
ArgWorld(w, e, c) ==
    IF c.kind = "solid" /\ ProxyRef(c.g) \notin w.s THEN makeSolid(w, e, c.g) ELSE w

\* args.map(arg => this.handler.pack(arg))
ArgList(w, c) ==
    CASE c.kind = "none" -> << >>
      [] c.kind = "prim" -> << Prim("42") >>
      [] c.kind = "shadow" -> << packHandle(w, c.g) >>
      [] OTHER -> << packHandle(ArgWorld(w, w.h[c.g].ep, c),
                                IF ProxyRef(c.g) \in w.s THEN c.g
                                ELSE Len(w.h) + 1) >>

HandleGet(h, key) ==
    LET e == handles[h].ep
        r == get(World(e), e, h, key)
    IN  IF Dead(h) THEN Throws(Obs("get", e, h, "throw", "", NoMsg, 0))
        ELSE Returns(e, r.w, Obs("get", e, h, "ok", "", r.m, Len(r.w.out)))

\* handle[key] = 42 and handle[key] = solid(handle)
HandleSet(h, key, c) ==
    LET e == handles[h].ep
        r == set(ArgWorld(World(e), e, c), e, h, key, ArgList(World(e), c)[1])
    IN  IF Dead(h) THEN Throws(Obs("set", e, h, "throw", "", NoMsg, 0))
        ELSE Returns(e, r.w, Obs("set", e, h, "ok", "", r.m, Len(r.w.out)))

HandleDelete(h, key) ==
    LET e == handles[h].ep
        r == deleteProperty(World(e), e, h, key)
    IN  IF Dead(h) THEN Throws(Obs("delete", e, h, "throw", "", NoMsg, 0))
        ELSE Returns(e, r.w, Obs("delete", e, h, "ok", "", r.m, Len(r.w.out)))

\* handle(arg), and the pipelined handle(arg).x: the read is made on the
\* returned handle in the same turn, without waiting.
HandleApply(h, c, pipelined) ==
    LET e == handles[h].ep
        w0 == ArgWorld(World(e), e, c)
        r == apply(w0, e, h, ArgList(World(e), c))
        w == IF pipelined THEN get(r.w, e, Len(r.w.h), "x").w ELSE r.w
    IN  IF Dead(h) THEN Throws(Obs("apply", e, h, "throw", "", NoMsg, 0))
        ELSE Returns(e, w, Obs("apply", e, h, "ok", "", r.m, Len(w.out)))

HandleConstruct(h) ==
    LET e == handles[h].ep
        r == construct(World(e), e, h, << >>)
    IN  IF Dead(h) THEN Throws(Obs("construct", e, h, "throw", "", NoMsg, 0))
        ELSE Returns(e, r.w, Obs("construct", e, h, "ok", "", r.m, Len(r.w.out)))

\* `await handle`: the reserved then capability calls resolve().
HandleResolve(h) ==
    LET e == handles[h].ep
        w == resolve(World(e), h)
    IN  IF handles[h].revoked \/ (~own[e] /\ handles[handles[h].wr].rp.k = "none")
        THEN Throws(Obs("resolve", e, h, "throw", "", NoMsg, 0))
        ELSE Returns(e, w, Obs("resolve", e, h, "ok", "",
                               IF w.out = << >> THEN NoMsg ELSE w.out[1], Len(w.out)))

\* The raw requests the model hands to sendAndWait: a property read with a
\* destination token, an invocation (with or without an argument list) and
\* a resolve, each for a token the caller holds a handle for or for
\* BadToken.
RawSources(e) == {handles[h].tok : h \in {h \in HandleIds : handles[h].ep = e}}
                 \cup {BadToken}

\* handler.sendAndWait(message), with a destination token from aquireToken
\* when the message has one
RawRequest(e) ==
    \E type \in {"prepare", "apply", "resolve"}, from \in RawSources(e),
       hasArgs \in BOOLEAN :
        /\ hasArgs = (type = "apply") \/ (type = "apply" /\ from = BadToken)
        /\ IF ~own[e] THEN Throws(Obs("sendAndWait", e, None, "throw", "", NoMsg, 0))
           ELSE LET a == IF type = "prepare" THEN aquireToken(World(e))
                         ELSE [w |-> World(e), v |-> None]
                    r == sendAndWait(a.w, Msg(type, None, from, a.v,
                                              IF type = "prepare" THEN "x" ELSE "",
                                              hasArgs, << >>, Prim(Undefined)))
                IN  Returns(e, r.w, Obs("sendAndWait", e, None, "ok", "",
                                        r.w.out[1], Len(r.w.out)))

\* handler.sendAndWait(message) for a request of any type, with or without
\* a destination token from aquireToken: a read or a delete of x, a write
\* of 42 to x, a resolve, an instantiation, an invocation with no argument
\* or with 42, and an invocation of BadToken.
RawInto(e) ==
    \E type \in Requests, from \in RawSources(e), withInto, withArg \in BOOLEAN :
        /\ own[e]
        /\ withArg => type = "apply"
        /\ ~withInto => type \in {"prepare", "apply"} /\ ~withArg
        /\ from = BadToken => type = "apply" /\ withInto /\ ~withArg
        /\ LET a == IF withInto THEN aquireToken(World(e))
                    ELSE [w |-> World(e), v |-> None]
               r == sendAndWait(a.w,
                        Msg(type, None, from, a.v,
                            IF type \in {"prepare", "assign", "delete"} THEN "x" ELSE "",
                            type \in {"apply", "construct"},
                            IF withArg THEN << Prim("42") >> ELSE << >>,
                            IF type = "assign" THEN Prim("42") ELSE Prim(Undefined)))
           IN  Returns(e, r.w, Obs("sendAndWait", e, None, "ok", "",
                                   r.w.out[1], Len(r.w.out)))

\* The answers of a transport that answers by itself: a success with a
\* primitive or with a cloned object, a failed message with an error.
Answers ==
    {Msg("success", None, None, None, "", FALSE, << >>, v) :
        v \in {Prim("42"), PackedValue("clone")}}
    \cup {Msg("failed", None, None, None, "", FALSE, << >>,
              PackedError("Error: thrown"))}

\* handler.sendAndWait(message) on such a transport
SendAndWaitAnswered(e) ==
    \E type \in {"apply", "resolve"}, from \in RawSources(e), answer \in Answers :
        /\ own[e]
        /\ LET m == Msg(type, None, from, None, "", type = "apply", << >>,
                        Prim(Undefined))
               r == sendAndWaitAnswered(World(e), e, m, answer)
           IN  Returns(e, r.w, Obs("sendAndWait", e, r.v, answer.type,
                                   answer.value.val,
                                   [m EXCEPT !.token = r.v], Len(r.w.out)))

\* The world of an endpoint whose aquireToken counts in a cell of its own.
SeqWorld(e) == [World(e) EXCEPT !.c = cells[e]]

\* A call on such an endpoint ended in world w: the endpoint's cell takes
\* the count, the shared cell is not touched.
SeqCommit(e, w, inbox) ==
    /\ w.c <= MaxToken
    /\ cells' = [cells EXCEPT ![e] = w.c]
    /\ Commit(e, [w EXCEPT !.c = counter], inbox)

\* handler.sendAndWait(message) on an endpoint with a counter of its own:
\* an invocation or a resolve
SeqRequest(e) ==
    \E type \in {"apply", "resolve"}, from \in RawSources(e) :
        LET r == sendAndWait(SeqWorld(e),
                             Msg(type, None, from, None, "", type = "apply",
                                 << >>, Prim(Undefined)))
        IN  /\ own[e]
            /\ ops < MaxOps
            /\ ops' = ops + 1
            /\ SeqCommit(e, r.w, chan[e])
            /\ last' = Obs("sendAndWait", e, r.v, "ok", "", r.w.out[1],
                           Len(r.w.out))
            /\ UNCHANGED << tasks, own, disposed, tokVars, symVars, cbVars >>

\* The run r of onReceive(m) on such an endpoint has come to its end or to
\* a suspension.
SeqRan(e, m, r) ==
    /\ SeqCommit(e, r.w, Tail(chan[e]))
    /\ tasks' = [tasks EXCEPT ![e] = @ \o HavingSent(r.susp, Len(r.w.out))]
    /\ last' = Obs("onReceive", e, None, r.out, r.v, m, Len(r.w.out))
               @@ [total |-> Len(r.w.out)]
    /\ UNCHANGED << own, disposed, ops, tokVars, symVars, cbVars >>

\* The port's 'message' event on such an endpoint.
SeqReceive(e) ==
    /\ chan[e] # << >>
    /\ ~SomeReady(e)
    /\ SeqRan(e, Head(chan[e]),
              IF own[e]
              THEN Run(SeqWorld(e), e, Task(Head(chan[e]), "start", "", << >>))
              ELSE Lost(SeqWorld(e), Head(chan[e])))

\* handler.resolveRemote(token, true)
ResolveRemoteShadow(e) ==
    \E token \in 0 .. counter :
        IF ~own[e] THEN Throws(Obs("createShadow", e, None, "throw", "", NoMsg, 0))
        ELSE LET r == createShadow(World(e), e, token)
             IN  Returns(e, r.w, Obs("createShadow", e, r.v, "ok", "",
                                     [NoMsg EXCEPT !.from = token], 0))

\* The values the model hands to setSolid and isSolid: the number 42, a
\* plain object, an error and the endpoint's remote handles.
SolidArgs(e) == {PlainRef("42"), PlainRef("obj"), PlainRef("Error: thrown")}
                \cup {ProxyRef(h) : h \in {h \in HandleIds : handles[h].ep = e}}

\* setSolid(obj): this.solidObjects.add(obj) for a reference-typed obj
setSolid(w, hasOwn, v) ==
    IF ~IsReference(v) THEN [st |-> "ok", w |-> w]
    ELSE IF ~hasOwn THEN [st |-> "throw", w |-> w]
    ELSE [st |-> "ok", w |-> [w EXCEPT !.s = @ \cup {v}]]

\* isSolid(obj): reads this.solidObjects for a reference-typed obj
isSolid(w, hasOwn, v) ==
    IF ~IsReference(v) THEN [st |-> "ok", v |-> "false"]
    ELSE IF ~hasOwn THEN [st |-> "throw", v |-> ""]
    ELSE [st |-> "ok",
          v |-> IF v \in w.s \/ (v.h = 0 /\ v.o \in w.g) THEN "true" ELSE "false"]

SetSolid(e) ==
    \E v \in SolidArgs(e) :
        LET r == setSolid(World(e), own[e], v)
        IN  IF r.st = "throw" THEN Throws(Obs("setSolid", e, v, "throw", "", NoMsg, 0))
            ELSE Returns(e, r.w, Obs("setSolid", e, v, "ok", "", NoMsg, 0))

IsSolid(e) ==
    \E v \in SolidArgs(e) :
        LET r == isSolid(World(e), own[e], v)
        IN  IF r.st = "throw" THEN Throws(Obs("isSolid", e, v, "throw", "", NoMsg, 0))
            ELSE Returns(e, World(e), Obs("isSolid", e, v, "ok", r.v, NoMsg, 0))

----------------------------------------------------------------------------
(* The marshaller's public methods, called directly.                       *)

\* A direct call of a public method ended: the world w is the state.
Calls(e, w, obs) ==
    /\ ops < MaxApi
    /\ ops' = ops + 1
    /\ Commit(e, w, chan[e])
    /\ last' = obs
    /\ UNCHANGED << tasks, own, disposed, tokVars, symVars, cbVars, cells >>

\* The values the model packs: the primitives, an error, the plain object
\* and its solid clone.
PackValues == Primitives \cup {"Error: thrown", "obj", "clone"}

\* handler.pack(value, clone); args holds what pack returned
Pack(e) ==
    \E v \in PackValues, clone \in BOOLEAN :
        LET r == pack(World(e), v, clone)
        IN  Calls(e, r.w, Obs("pack", e, r.v.key, r.v.type, v,
                              [NoMsg EXCEPT !.args = << r.v >>], Len(r.w.out))
                          @@ [clone |-> clone])

\* handler.pack(handle, clone) for a remote handle of the endpoint
PackHandle(e) ==
    \E h \in {h \in HandleIds : handles[h].ep = e}, clone \in BOOLEAN :
        LET r == packProxy(World(e), h, clone)
        IN  Calls(e, World(e), Obs("pack", e, r.key, r.type, "handle",
                                   [NoMsg EXCEPT !.args = << r >>, !.from = h], 0)
                               @@ [clone |-> clone])

\* handler.pack(symbol, clone): the key is fromSymbol(symbol), which needs
\* none of the handler's tables for a registered symbol
PackSymbol(e) ==
    \E sym \in OwnSymbols(e) \cup {Global(name) : name \in Names},
       clone \in BOOLEAN :
        LET a == aquireToken(World(e))
            known == IF keyFor(sym) # NoKey THEN keyFor(sym)
                     ELSE NumKey(sym2Key[e][sym])
            key == IF known # NoKey THEN known ELSE NumKey(a.v)
            obs(out, k) == Obs("pack", e, k.n, out, "symbol",
                               [NoMsg EXCEPT !.args = << PackedSymbol(k) >>], 0)
                           @@ [clone |-> clone, sym |-> sym]
        IN  /\ tpc[ThreadOf(e)] = "idle"
            /\ ops < MaxApi
            /\ ops' = ops + 1
            /\ IF ~own[e] /\ keyFor(sym) = NoKey
               THEN /\ last' = obs("throw", NoKey)
                    /\ Commit(e, World(e), chan[e])
                    /\ UNCHANGED << key2Sym, sym2Key >>
               ELSE IF known # NoKey
               THEN /\ last' = obs("symbol", key)
                    /\ Commit(e, World(e), chan[e])
                    /\ UNCHANGED << key2Sym, sym2Key >>
               ELSE /\ last' = obs("symbol", key)
                    /\ Commit(e, a.w, chan[e])
                    /\ key2Sym' = [key2Sym EXCEPT ![e][a.v] = sym]
                    /\ sym2Key' = [sym2Key EXCEPT ![e][sym] = a.v]
            /\ UNCHANGED << tasks, own, disposed, tokVars, tsym, cbVars, cells >>

\* handler.unpack(handler.pack(value, clone)) for a value that pack does not
\* turn into a token; args holds what pack returned, res what unpack did
Unpack(e) ==
    \E v \in PackValues, clone \in BOOLEAN :
        LET p == pack(World(e), v, clone)
            u == unpack(p.w, e, p.v)
        IN  /\ p.v.type \in {"prim", "value", "error"}
            /\ Calls(e, u.w, Obs("unpack", e, None, p.v.type, v,
                                  [NoMsg EXCEPT !.args = << p.v >>],
                                  Len(u.w.out))
                             @@ [res |-> u.v])

\* The kinds resolveLocal is called with: none, a typeof tag, a constructor.
Kinds == {"", "function", "object", "Function"}

\* resolveLocal(id, type), for a token in or out of the registry
ResolveLocal(e) ==
    \E id \in Tokens, type \in Kinds :
        IF ~own[e]
        THEN Calls(e, World(e), Obs("resolveLocal", e, id, "throw", "", NoMsg, 0)
                                @@ [kind |-> type])
        ELSE LET r == resolveLocal(World(e), id, type)
             IN  Calls(e, World(e), Obs("resolveLocal", e, id, r.st, r.v, NoMsg, 0)
                                    @@ [kind |-> type])

\* handler.registerToken(obj, token) for a plain object, with and without
\* a supplied token, and for a remote handle of the endpoint (WrapperHandler
\* .get(obj) answers before any property of the handler is read).
RegisterToken(e) ==
    \/ \E obj \in {"obj", "clone"}, token \in {None, BadToken} :
        IF ~own[e]
        THEN Calls(e, World(e), Obs("registerToken", e, None, "throw", obj,
                                    [NoMsg EXCEPT !.token = token], 0))
        ELSE LET r == registerToken(World(e), obj, token)
             IN  Calls(e, r.w, Obs("registerToken", e, r.v, "ok", obj,
                                   [NoMsg EXCEPT !.token = token], 0))
    \/ \E h \in {h \in HandleIds : handles[h].ep = e} :
        Calls(e, World(e), Obs("registerToken", e, handles[h].tok, "ok", "handle",
                               [NoMsg EXCEPT !.from = h], 0))

\* solid(source)
Solid(e) ==
    \E v \in {"42", "obj"} :
        LET r == solid(World(e), v)
        IN  Calls(e, r.w, Obs("solid", e, None, "ok", r.v, NoMsg, 0))

----------------------------------------------------------------------------
(* Disposal.                                                               *)

\* A variant that empties the registry and neither runs the callbacks nor
\* deletes the handler's properties.
disposeClearOnly(w, e) ==
    [w |-> [w EXCEPT !.k = [t \in Tokens |-> NoEntry],
                     !.o = [o \in DOMAIN w.o |-> None],
                     !.r = {},
                     !.s = {}],
     own |-> TRUE]

\* A variant that also rejects every pending request.
disposeRejectPending(w, e) ==
    [w |-> [w EXCEPT !.h = [i \in DOMAIN w.h |->
                               IF w.h[i].ep = e
                               THEN [w.h[i] EXCEPT !.revoked = TRUE] ELSE w.h[i]],
                     !.k = [t \in Tokens |-> NoEntry],
                     !.o = [o \in DOMAIN w.o |-> None],
                     !.f = [t \in Tokens |->
                               IF w.f[t].st = "pending"
                               THEN [w.f[t] EXCEPT !.st = "rejected",
                                                   !.v = "Error: thrown"]
                               ELSE w.f[t]],
                     !.r = {},
                     !.s = {}],
     own |-> FALSE]

\* dispose(): every registered callback runs (each revokes one proxy of
\* this endpoint), then every own property of the handler is deleted.
dispose(w, e) ==
    [w |-> [w EXCEPT !.h = [i \in DOMAIN w.h |->
                               IF w.h[i].ep = e
                               THEN [w.h[i] EXCEPT !.revoked = TRUE] ELSE w.h[i]],
                     !.k = [t \in Tokens |-> NoEntry],
                     !.o = [o \in DOMAIN w.o |-> None],
                     !.r = {},
                     !.s = {}],
     own |-> FALSE]

\* disposableCallbacks.add(callback): a set in insertion order
onDispose(cbs, c) ==
    IF \E i \in 1 .. Len(cbs) : cbs[i] = c THEN cbs ELSE Append(cbs, c)

\* A variant of the loop without the try block: the first callback that
\* raises ends it, and dispose() with it.
invokeUntilRaise(cbs, inv, tables) ==
    LET stop == IF \E i \in 1 .. Len(cbs) : Raises(cbs[i])
                THEN CHOOSE i \in 1 .. Len(cbs) :
                        /\ Raises(cbs[i])
                        /\ \A j \in 1 .. i - 1 : ~Raises(cbs[j])
                ELSE Len(cbs)
    IN  [inv |-> [c \in Callbacks |->
                    IF \E i \in 1 .. stop : cbs[i] = c
                    THEN [n |-> inv[c].n + 1, tables |-> tables] ELSE inv[c]],
         done |-> \A i \in 1 .. Len(cbs) : ~Raises(cbs[i])]

\* for (const dispose of this.disposableCallbacks.values())
\*   try { dispose(); } catch { }
\* tables: the handler's tables are still there while the callbacks run.
invokeAll(cbs, inv, tables) ==
    [inv |-> [c \in Callbacks |->
                IF \E i \in 1 .. Len(cbs) : cbs[i] = c
                THEN [n |-> inv[c].n + 1, tables |-> tables] ELSE inv[c]],
     done |-> TRUE]

\* handler.onDispose(callback); it throws on a handler whose properties
\* are gone.
OnDispose(e) ==
    \E c \in Callbacks :
        /\ ops < MaxApi
        /\ ops' = ops + 1
        /\ disposableCallbacks' =
                IF own[e]
                THEN [disposableCallbacks EXCEPT ![e] = onDispose(@, c)]
                ELSE disposableCallbacks
        /\ last' = Obs("onDispose", e, None, IF own[e] THEN "ok" ELSE "throw",
                       c, NoMsg, 0)
        /\ UNCHANGED << counter, key2Obj, obj2Key, resolvers, fut,
                        solidObjects, globalSolidObjects, handles, chan,
                        tasks, heap, own, disposed, tokVars, symVars, invoked,
                        cells >>

\* The tables of an endpoint after dispose() deleted the handler's
\* properties.
NoSymbols(e, table, empty) == [table EXCEPT ![e] = [x \in DOMAIN @ |-> empty]]

\* The port's 'close' event: dispose(). The user's callbacks run, and the
\* revoke callbacks of the handles with them, before the loop that deletes
\* the properties.
Dispose(e) ==
    /\ ~disposed[e]
    /\ ~SomeReady(e)
    /\ tpc[ThreadOf(e)] = "idle"
    /\ LET r == invokeAll(disposableCallbacks[e], invoked[e], own[e])
           d == dispose(World(e), e)
       IN  /\ invoked' = [invoked EXCEPT ![e] = r.inv]
           /\ IF r.done
              THEN /\ Commit(e, d.w, chan[e])
                   /\ own' = [own EXCEPT ![e] = d.own]
                   /\ disposableCallbacks' =
                        [disposableCallbacks EXCEPT ![e] = << >>]
                   /\ key2Sym' = NoSymbols(e, key2Sym, NoSym)
                   /\ sym2Key' = NoSymbols(e, sym2Key, None)
              ELSE /\ Commit(e, World(e), chan[e])
                   /\ UNCHANGED << own, disposableCallbacks, key2Sym, sym2Key >>
    /\ disposed' = [disposed EXCEPT ![e] = TRUE]
    /\ last' = Obs("dispose", e, None, "ok", "", NoMsg, 0)
    /\ UNCHANGED << tasks, ops, tokVars, tsym, cells >>

----------------------------------------------------------------------------
(* The specifications.                                                     *)

\* The port's events on either endpoint.
Transport == \E e \in Endpoints : Receive(e) \/ Resume(e)

\* The request / reply protocol: reads, invocations (plain and pipelined),
\* resolves and raw requests against the dispatcher.
Next ==
    \/ Transport
    \/ \E h \in HandleIds : HandleGet(h, "x")
    \/ \E h \in HandleIds : \E c \in ArgChoices(h), p \in BOOLEAN :
            HandleApply(h, c, p)
    \/ \E h \in HandleIds : HandleResolve(h)
    \/ \E e \in Callers : RawRequest(e)

Spec == Init /\ [][Next]_vars

\* The keys the model reads, writes and deletes through a handle.
TrapKeys == {"x", "length"}

\* The life of the remote handles: every handle operation, handle creation,
\* the solid marks, and disposal.
LifeNext ==
    \/ Transport
    \/ \E h \in HandleIds, key \in TrapKeys : HandleGet(h, key)
    \/ \E h \in HandleIds, key \in TrapKeys : \E c \in SetChoices(h) :
            HandleSet(h, key, c)
    \/ \E h \in HandleIds, key \in TrapKeys : HandleDelete(h, key)
    \/ \E h \in HandleIds : \E c \in ArgChoices(h) :
            HandleApply(h, c, FALSE)
    \/ \E h \in HandleIds : HandleConstruct(h)
    \/ \E h \in HandleIds : HandleResolve(h)
    \/ \E e \in Callers : ResolveRemoteShadow(e)
    \/ \E e \in Callers : SetSolid(e)
    \/ \E e \in Callers : IsSolid(e)
    \/ \E e \in Endpoints : Dispose(e)

SpecLife == Init /\ [][LifeNext]_vars

\* The marshaller and the registry through the handler's public methods.
PackNext ==
    \/ \E e \in Callers : Pack(e)
    \/ \E e \in Callers : PackHandle(e)
    \/ \E e \in Callers : PackSymbol(e)
    \/ \E e \in Callers : Unpack(e)
    \/ \E e \in Callers : RegisterToken(e)
    \/ \E e \in Callers : ResolveLocal(e)
    \/ \E e \in Callers : Solid(e)
    \/ \E e \in Callers : SetSolid(e)
    \/ \E e \in Endpoints : Dispose(e)

SpecPack == Init /\ [][PackNext]_vars

\* The tokens the model resolves: the exported root's, which the peer binds,
\* and one that no counter has issued.
ResolveTokens == {0, BadToken}

\* handler.resolveRemote(token, shadowed): a new handle for the token, or
\* the future of its value.
ResolveRemote(e) ==
    \E token \in ResolveTokens, shadowed \in BOOLEAN :
        IF ~own[e]
        THEN Calls(e, World(e), Obs("resolveRemote", e, None, "throw", "",
                                    [NoMsg EXCEPT !.from = token], 0))
        ELSE IF shadowed
        THEN LET r == createShadow(World(e), e, token)
             IN  Calls(e, r.w, Obs("resolveRemote", e, r.v, "ok", "handle",
                                   [NoMsg EXCEPT !.from = token], 0))
        ELSE LET r == resolveRemote(World(e), token)
             IN  Calls(e, r.w, Obs("resolveRemote", e, None, "ok", "",
                                   [NoMsg EXCEPT !.from = token], Len(r.w.out)))

\* handle.then(...), what `await handle` calls: the wrapper's resolve().
Then(h) ==
    LET e == handles[h].ep
        w == resolve(World(e), h)
    IN  IF handles[h].revoked \/ (~own[e] /\ handles[handles[h].wr].rp.k = "none")
        THEN Calls(e, World(e), Obs("then", e, h, "throw", "", NoMsg, 0))
        ELSE Calls(e, w, Obs("then", e, h, "ok", "",
                             IF w.out = << >> THEN NoMsg ELSE w.out[1], Len(w.out)))

\* Handles of one token made and resolved again and again, with the
\* registry filled by registerToken in between.
ResolveNext ==
    \/ \E e \in Endpoints : Receive(e)
    \/ \E e \in Callers : ResolveRemote(e)
    \/ \E h \in HandleIds : Then(h)
    \/ \E e \in Callers : RegisterToken(e)
    \/ \E e \in Endpoints : Dispose(e)

SpecResolve == Init /\ [][ResolveNext]_vars

TokNext == \E t \in Threads : TokRead(t) \/ TokWrite(t)

\* Correlated requests of every type against the dispatcher.
ReqNext ==
    \/ \E e \in Endpoints : Receive(e)
    \/ \E e \in Callers : RawInto(e)

SpecReq == Init /\ [][ReqNext]_vars

\* Requests over a transport that answers during send().
SyncNext ==
    \/ \E e \in Endpoints : Receive(e)
    \/ \E e \in Callers : SendAndWaitAnswered(e)

SpecSync == Init /\ [][SyncNext]_vars

\* The end of a handler: callbacks, tokens and symbols registered, and the
\* port's close.
DisposeNext ==
    \/ \E e \in Callers : OnDispose(e)
    \/ \E e \in Callers : RegisterToken(e)
    \/ \E e \in Callers : FromSymbol(e)
    \/ \E e \in Callers : FromSymbolReturn(e)
    \/ \E e \in Endpoints : Dispose(e)

SpecDispose == Init /\ [][DisposeNext]_vars

\* Two endpoints whose aquireToken counts each in a cell of its own, both
\* issuing requests.
SeqNext ==
    \/ \E e \in Endpoints : SeqReceive(e)
    \/ \E e \in Endpoints : SeqRequest(e)

SpecSeq == Init /\ [][SeqNext]_vars

\* One request of either endpoint (a raw one, or the one handle.resolve()
\* makes) and nothing further, over a port that delivers every message it
\* is handed.
QuietNext ==
    \/ \E e \in Endpoints : Receive(e)
    \/ \E e \in Endpoints : ops = 0 /\ RawInto(e)
    \/ \E e \in Callers : ops = 0 /\ RawRequest(e)
    \/ \E h \in HandleIds : ops = 0 /\ HandleResolve(h)

SpecQuiet ==
    Init /\ [][QuietNext]_vars /\ WF_vars(\E e \in Endpoints : Receive(e))

\* The symbol tables of the two handlers, each on its own thread.
SymNext ==
    \/ \E e \in Endpoints : FromSymbol(e)
    \/ \E e \in Endpoints : FromSymbolReturn(e)
    \/ \E e \in Endpoints : ToSymbol(e)

SpecSym == Init /\ [][SymNext]_vars

\* aquireToken alone, step by step, on the two threads.
SpecTok == Init /\ [][TokNext]_vars

----------------------------------------------------------------------------
(* The claims.                                                             *)

InvalidId == "ReferenceError: Invalid Id"

\* The traps and the reserved capability of a remote handle.
HandleOps == {"get", "set", "delete", "apply", "construct", "resolve"}

\* The last step was a dispatch on e of a message of this type that ran to
\* its end.
Dispatched(e, type) ==
    /\ last.op = "onReceive"
    /\ last.e = e
    /\ last.type = type
    /\ last.out # "suspended"

\* C1 (as stated): when Y has sent an invocation of the exported function
\* with destination token T (arguments the function accepts) and then a
\* property read whose source is T, X's dispatch of that read finds T bound
\* to the invocation's result and succeeds with the property's value, in
\* every interleaving.
C1_PipelinedRead ==
    \A h \in HandleIds :
        LET a == handles[h].by
        IN  (/\ a.type = "apply"
             /\ a.from = 0
             /\ a.args # << Prim("42") >>
             /\ Dispatched("X", "prepare")
             /\ last.from = a.into)
            => (/\ key2Obj["X"][a.into] = ValEntry("res")
                /\ last.out = "success"
                /\ last.v = "42")

\* C2 (as stated): the dispatch of a success or failed message sends
\* nothing.
C2_RepliesAreTerminal ==
    (last.op = "onReceive" /\ last.type \in Replies) => last.sent = 0

\* C3 (as stated): when X binds token 0 to the exported object, X's
\* dispatch of a property read of key x from token 0 binds the destination
\* token to the property's value and answers success with it, and Y's
\* later resolve of the destination's handle is fulfilled with that value.
C3_PropertyRead ==
    /\ (Dispatched("X", "prepare") /\ last.from = 0)
       => (/\ last.out = "success"
           /\ last.v = "42"
           /\ key2Obj["X"][last.into] = ValEntry("42"))
    /\ \A h \in HandleIds :
        LET p == handles[h].by
            q == key2Obj["Y"][p.into]
        IN  (/\ p.type = "prepare"
             /\ p.from = 0
             /\ q.k = "req"
             /\ fut["Y"][q.t].st # "pending")
            => (fut["Y"][q.t].st = "fulfilled" /\ fut["Y"][q.t].v = "42")

\* C4: the dispatch of an invocation whose source token the registry does
\* not bind ends with the invalid-token reference error, and hands the peer
\* a failed message carrying it when the invocation has a correlation
\* token; the future Y awaits for a correlated invocation from a token X
\* never binds is never fulfilled, and once it is settled it is rejected
\* with that error.
C4_UnboundInvocationFails ==
    /\ (/\ last.op = "onReceive"
        /\ last.type = "apply"
        /\ last.out # "suspended"
        /\ key2Obj[last.e][last.from].k = "none")
       => (/\ last.out = "failed"
           /\ last.v = InvalidId
           /\ last.tok # None =>
                (/\ last.sent = 1
                 /\ chan[Peer(last.e)] # << >>
                 /\ LET r == chan[Peer(last.e)][Len(chan[Peer(last.e)])]
                    IN  /\ r.type = "failed"
                        /\ r.token = last.tok
                        /\ r.value = PackedError(InvalidId)))
    /\ \A t \in Tokens :
        (fut["Y"][t].type = "apply" /\ fut["Y"][t].from = BadToken)
        => (\/ fut["Y"][t].st = "pending"
            \/ (fut["Y"][t].st = "rejected" /\ fut["Y"][t].v = InvalidId))

\* C4 witness: Y's future of a correlated invocation from a token X never
\* binds has been rejected with the invalid-token error.
C4_Witness ==
    \E t \in Tokens :
        /\ fut["Y"][t].type = "apply"
        /\ fut["Y"][t].from = BadToken
        /\ fut["Y"][t].st = "rejected"
        /\ fut["Y"][t].v = InvalidId

\* C5 (as stated): the dispatch of a resolve whose source token the
\* registry does not bind is answered with failed.
C5_UnboundResolveFails ==
    (/\ last.op = "onReceive"
     /\ last.type = "resolve"
     /\ last.out # "suspended"
     /\ key2Obj[last.e][last.from].k = "none")
    => last.out = "failed"

Sequential == tret["worker"] = << >> /\ tpc["worker"] = "idle"

\* The tokens returned to a thread, in the order of its calls, grow and
\* none is 0, over the first n calls.
Growing(t, n) ==
    \A i, j \in 1 .. Len(tret[t]) :
        (i < j /\ j <= n) => (tret[t][i] # 0 /\ tret[t][j] # 0
                              /\ tret[t][i] < tret[t][j])

\* C7 (as stated): the two threads sharing the counter never get the same
\* token, however their calls interleave (before the cell wraps).
C7_NoSharedToken ==
    TotalCalls < CounterMod
    => \A i \in 1 .. Len(tret["main"]), j \in 1 .. Len(tret["worker"]) :
            tret["main"][i] # tret["worker"][j]

C9_DisposedHandlesThrow ==
    (last.op \in HandleOps /\ disposed[last.e])
    => (last.out = "throw" /\ last.sent = 0)

\* C9 witness: an invocation through a handle of a disposed endpoint threw.
C9_Witness ==
    /\ last.op = "apply"
    /\ disposed[last.e]
    /\ last.out = "throw"

\* C10 (as stated): setSolid and isSolid still return after the endpoint
\* is disposed.
C10_SolidAfterDispose ==
    (last.op \in {"setSolid", "isSolid"} /\ disposed[last.e])
    => last.out = "ok"

\* The futures sendAndWait returned on endpoint e.
Requested(e) == {t \in Tokens : fut[e][t].type # ""}

Settled(p) == p.st \in {"fulfilled", "rejected"}

C12_DisposeLeavesPending ==
    [][\A e \in Endpoints : disposed'[e] =>
            \A t \in Requested(e) :
                fut[e][t].st = "pending" => fut'[e][t] = fut[e][t]]_vars

\* C12 witness: a reply bearing the token of a pending request has been
\* dispatched on the disposed endpoint, and the request is still pending.
C12_Witness ==
    /\ last.op = "onReceive"
    /\ last.type \in Replies
    /\ disposed[last.e]
    /\ last.tok \in Requested(last.e)
    /\ fut[last.e][last.tok].st = "pending"

\* C13 (as stated): X's dispatch of a correlated invocation of the exported
\* function (token 0) ends with success and the function's result, and the
\* future Y holds for the invocation, once settled, is fulfilled.
C13_InvocationResult ==
    /\ (Dispatched("X", "apply") /\ last.from = 0 /\ last.tok # None)
       => (last.out = "success" /\ last.v = "res")
    /\ \A t \in Requested("Y") :
        (fut["Y"][t].type = "apply" /\ fut["Y"][t].from = 0
         /\ Settled(fut["Y"][t]))
        => fut["Y"][t].st = "fulfilled"

\* C14 (as stated): every pack of a plain value that is marked solid (by
\* setSolid on this endpoint or as a clone solid() made) yields a cloned
\* value entry.
C14_SolidPacksAsValue ==
    (/\ last.op = "pack"
     /\ last.v \in Objects
     /\ (PlainRef(last.v) \in solidObjects[last.e]
         \/ last.v \in globalSolidObjects[last.e]))
    => last.out = "value"

C16_IdempotentRegistration ==
    [][\A e \in Endpoints :
        (ops' = ops + 1 /\ last'.op = "registerToken" /\ last'.e = e
         /\ last'.out = "ok")
        => /\ (last'.v \in Objects /\ obj2Key[e][last'.v] # None)
              => (/\ last'.id = obj2Key[e][last'.v]
                  /\ counter' = counter
                  /\ key2Obj' = key2Obj
                  /\ obj2Key' = obj2Key)
           /\ last'.v = "handle"
              => (/\ last'.id = handles[last'.from].tok
                  /\ counter' = counter
                  /\ key2Obj' = key2Obj
                  /\ obj2Key' = obj2Key)]_vars

\* C16 witness: a second registerToken of the plain object, with a token
\* supplied, returned the token of the first.
C16_Witness ==
    /\ last.op = "registerToken"
    /\ last.out = "ok"
    /\ last.v = "obj"
    /\ last.tok = BadToken
    /\ last.id # BadToken
    /\ obj2Key[last.e]["obj"] = last.id

\* C17: pack of a primitive (undefined, null, a boolean, a number, a bigint,
\* a string) returns the primitive itself, with and without forceClone, and
\* unpack of what pack returned is the primitive again; neither call
\* acquires a token, changes the registry, the solid marks or the handles,
\* or sends a message.
C17_PrimitiveRoundTrip ==
    [][(ops' = ops + 1 /\ last'.op \in {"pack", "unpack"}
        /\ last'.v \in Primitives)
       => /\ last'.args = << Prim(last'.v) >>
          /\ last'.op = "unpack" => last'.res = last'.v
          /\ last'.sent = 0
          /\ UNCHANGED << counter, key2Obj, obj2Key, resolvers, fut,
                          solidObjects, globalSolidObjects, handles, chan,
                          heap >>]_vars

\* C17 witness: null, whose typeof is "object", has gone through pack and
\* unpack.
C17_Witness ==
    /\ last.op = "unpack"
    /\ last.v = "null"
    /\ last.res = "null"

\* C18 (as stated): a dispatch of a request without a correlation token
\* that failed has sent no message at all from its start to its end.
C18_NoMessageAtAll ==
    (/\ last.op = "onReceive"
     /\ last.type \in Requests
     /\ last.tok = None
     /\ last.out = "failed")
    => last.total = 0

\* C18 (amended): no step of the dispatch of a request without a
\* correlation token sends a success or failed reply, whether the dispatch
\* fails, succeeds or suspends: every message such a step sends is a resolve
\* request for a solid argument, and a step that ends the dispatch, in
\* failure or in success, sends nothing.
C18_ErrorsDropped ==
    [][\A e \in Endpoints :
        (/\ last'.op = "onReceive"
         /\ last'.e = e
         /\ last'.type \in Requests
         /\ last'.tok = None
         /\ (chan'[e] # chan[e] \/ tasks'[e] # tasks[e]))
        => LET old == chan[Peer(e)]
               new == chan'[Peer(e)]
           IN  /\ Len(new) = Len(old) + last'.sent
               /\ SubSeq(new, 1, Len(old)) = old
               /\ \A i \in Len(old) + 1 .. Len(new) :
                    /\ new[i].type = "resolve"
                    /\ new[i].token # None
               /\ last'.out \in {"failed", "success"} => last'.sent = 0]_vars

\* C18 witness: the dispatch of a write without a correlation token has
\* failed after it had sent a resolve request for the solid value.
C18_Witness ==
    /\ last.op = "onReceive"
    /\ last.type = "assign"
    /\ last.tok = None
    /\ last.out = "failed"
    /\ last.total = 1
    /\ last.sent = 0

\* C19: every read, write, delete, invocation and instantiation made on a
\* live handle hands exactly one message to the transport, that message
\* carries no correlation token, and the operation leaves the table of
\* pending requests as it is; a resolve() that sends a request adds exactly
\* the entry of that request.
C19_HandleOperationsNeverWait ==
    [][(/\ ops' = ops + 1
        /\ last'.op \in HandleOps
        /\ last'.out = "ok")
       => IF last'.op = "resolve"
          THEN /\ resolvers[last'.e] \subseteq resolvers'[last'.e]
               /\ \A t \in resolvers'[last'.e] \ resolvers[last'.e] :
                    last'.sent = 1 /\ last'.tok = t
          ELSE /\ last'.sent = 1
               /\ Len(chan'[Peer(last'.e)]) = Len(chan[Peer(last'.e)]) + 1
               /\ last'.tok = None
               /\ resolvers' = resolvers]_vars

\* C20: when toSymbol on an endpoint is given a number key that the peer's
\* fromSymbol returned for a symbol s of the peer's own, it returns a
\* symbol that is none of the endpoint's own symbols, fromSymbol of that
\* symbol on the endpoint is the key again, and toSymbol of the key on the
\* peer is s; every fromSymbol of a symbol returns the key the first one
\* returned; a registered symbol travels as its name and toSymbol of the
\* name is the symbol registered under it.
C20_IdentifierRoundTrip ==
    /\ \A e \in Endpoints : \A x \in Symbols :
            sym2Key[e][x] # None => key2Sym[e][sym2Key[e][x]] = x
    /\ (last.op = "fromSymbol" /\ last.out = "ok")
       => IF last.sym.kind = "global" THEN last.key = NameKey(last.sym.name)
          ELSE last.key = NumKey(sym2Key[last.e][last.sym])
    /\ (last.op = "toSymbol" /\ last.key.n = None)
       => last.sym = Global(last.key.name)
    /\ (last.op = "toSymbol" /\ last.key.n # None)
       => \A s \in OwnSymbols(Peer(last.e)) :
            sym2Key[Peer(last.e)][s] = last.key.n
            => /\ last.sym \notin OwnSymbols(last.e)
               /\ last.sym = key2Sym[last.e][last.key.n]
               /\ sym2Key[last.e][last.sym] = last.key.n
               /\ key2Sym[Peer(last.e)][last.key.n] = s

\* The step is a run of onReceive on the endpoint last' names, for a
\* request.
DispatchStep ==
    /\ last'.op = "onReceive"
    /\ last'.type \in Requests
    /\ chan'[last'.e] # chan[last'.e] \/ tasks'[last'.e] # tasks[last'.e]

\* C21: when the dispatch of a request that carries a destination token and
\* a correlation token succeeds, the registry binds the destination token to
\* the result in the state in which the success reply is in the transport,
\* and the reply was built after the binding: a reference result travels as
\* a reference whose key is the destination token. When the dispatch fails
\* the destination token stays unbound.
C21_StoreBeforeReply ==
    [][(DispatchStep /\ last'.into # None /\ last'.tok # None)
       => LET e == last'.e
              new == chan'[Peer(e)]
              reply == new[Len(new)]
          IN  /\ last'.out = "success"
                 => /\ key2Obj'[e][last'.into] = ValEntry(last'.v)
                    /\ Len(new) = Len(chan[Peer(e)]) + 1
                    /\ reply.type = "success"
                    /\ reply.token = last'.tok
                    /\ last'.v \in Objects
                       => reply.value = PackedToken("shadow", last'.into)
              /\ last'.out = "failed"
                 => /\ key2Obj[e][last'.into].k = "none"
                    /\ key2Obj'[e][last'.into].k = "none"]_vars

\* C21 witness: X has answered an invocation of its export that carried a
\* destination token and a correlation token, and the result is bound.
C21_Witness ==
    /\ Dispatched("X", "apply")
    /\ last.into # None
    /\ last.tok # None
    /\ last.out = "success"
    /\ key2Obj["X"][last.into] = ValEntry("res")

\* C22: the worker issues no request of its own in these runs, so every
\* message it hands to the transport answers a request it received: a
\* completed dispatch of a request bearing token t hands over exactly one
\* message, bearing t, success when the evaluation succeeded and failed when
\* it raised, and no other step of the worker hands over anything, so no
\* second message bearing t follows.
C22_ExactlyOneReply ==
    [][LET old == chan["Y"]
           new == chan'["Y"]
           isReply == /\ DispatchStep
                      /\ last'.e = "X"
                      /\ last'.tok # None
                      /\ last'.out \in {"success", "failed"}
       IN  /\ isReply => /\ Len(new) = Len(old) + 1
                         /\ new[Len(new)].type = last'.out
                         /\ new[Len(new)].token = last'.tok
           /\ Len(new) > Len(old) => isReply]_vars

\* C23: resolveLocal on a token the registry binds to a value, called with
\* no kind, returns the value (boxed when it is not reference-typed) and
\* raises the type error only for a kind the value does not satisfy; on an
\* unbound token it raises Invalid Id when a kind was given and returns the
\* empty result otherwise.
C23_ResolveLocalResult ==
    (last.op = "resolveLocal" /\ own[last.e])
    => LET entry == key2Obj[last.e][last.id]
           value == entry.v
           fits == CASE last.kind = "" -> TRUE
                     [] last.kind = "Function" -> IsFunction(value)
                     [] OTHER -> TypeOf(value) = last.kind
       IN  CASE entry.k = "val" ->
                  IF fits
                  THEN /\ last.out = "ok"
                       /\ last.v = IF isReferenceType(value) THEN value
                                   ELSE Box(value)
                  ELSE /\ last.out = "throw"
                       /\ last.v = "TypeError: Invalid type"
             [] entry.k = "none" ->
                  IF last.kind = ""
                  THEN last.out = "ok" /\ last.v = Undefined
                  ELSE last.out = "throw" /\ last.v = InvalidId
             [] OTHER -> TRUE

\* C24: when the transport delivers the answer while send() runs, the
\* answer finds the settle-pair sendAndWait recorded under the fresh token:
\* the entry is removed and the returned future is fulfilled by a success
\* and rejected by a failed answer, with the answer's value.
C24_SendAndWaitOrdering ==
    (last.op = "sendAndWait" /\ last.out \in Replies)
    => /\ last.id = last.tok
       /\ last.id \notin resolvers[last.e]
       /\ fut[last.e][last.id].st
            = (IF last.out = "success" THEN "fulfilled" ELSE "rejected")
       /\ fut[last.e][last.id].v = last.v

\* C24 witness: a request was answered during send() and its future is
\* fulfilled with the answer's value 42.
C24_Witness ==
    /\ last.op = "sendAndWait"
    /\ last.out = "success"
    /\ last.v = "42"
    /\ fut[last.e][last.id] # NoFuture
    /\ fut[last.e][last.id].st = "fulfilled"

\* C25: every read of a key on a live handle takes one fresh token, hands
\* exactly one prepare message with that token as its destination to the
\* transport, and returns a new handle for the token; none is answered from
\* what the local stand-in owns or inherits.
C25_ReadsAlwaysForwarded ==
    [][(/\ ops' = ops + 1
        /\ last'.op = "get"
        /\ last'.out = "ok")
       => /\ last'.sent = 1
          /\ Len(chan'[Peer(last'.e)]) = Len(chan[Peer(last'.e)]) + 1
          /\ last'.type = "prepare"
          /\ last'.from = handles[last'.id].tok
          /\ last'.into = counter'
          /\ counter' # counter
          /\ Len(handles') = Len(handles) + 1
          /\ handles'[Len(handles')].ep = last'.e
          /\ handles'[Len(handles')].tok = last'.into]_vars

\* C26: the dispatch of an assign or a delete message that carries a
\* correlation token and whose source token the registry binds to an object
\* is answered with one success message whose value is the empty value,
\* undefined, and for an assign not the assigned value.
C26_EmptyAcknowledgement ==
    [][(/\ DispatchStep
        /\ last'.type \in {"assign", "delete"}
        /\ last'.tok # None
        /\ last'.from # None
        /\ key2Obj[last'.e][last'.from].k = "val"
        /\ isReferenceType(key2Obj[last'.e][last'.from].v))
       => LET new == chan'[Peer(last'.e)]
          IN  /\ Len(new) = Len(chan[Peer(last'.e)]) + 1
              /\ new[Len(new)].type = "success"
              /\ new[Len(new)].token = last'.tok
              /\ new[Len(new)].value = Prim(Undefined)]_vars

\* The callbacks in the callback set of endpoint e.
Registered(e) ==
    {disposableCallbacks[e][i] : i \in 1 .. Len(disposableCallbacks[e])}

\* C27: dispose() invokes each callback in the callback set once more and
\* no other callback, whether or not one of them raises; the callbacks run
\* while the handler's tables are still there; and when dispose() is over
\* the registry, the reverse lookup, the identifier tables, the table of
\* pending requests and the callback set of the endpoint are empty.
C27_DisposeRunsEveryCallback ==
    [][\A e \in Endpoints :
        (disposed'[e] /\ ~disposed[e])
        => /\ \A c \in Callbacks :
                IF c \in Registered(e)
                THEN /\ invoked'[e][c].n = invoked[e][c].n + 1
                     /\ invoked'[e][c].tables
                ELSE invoked'[e][c] = invoked[e][c]
           /\ \A t \in Tokens : key2Obj'[e][t] = NoEntry
           /\ \A o \in DOMAIN obj2Key'[e] : obj2Key'[e][o] = None
           /\ \A k \in Tokens : key2Sym'[e][k] = NoSym
           /\ \A x \in Symbols : sym2Key'[e][x] = None
           /\ resolvers'[e] = {}
           /\ disposableCallbacks'[e] = << >>]_vars

\* C27 witness: the handler of Y was disposed with a raising callback and
\* another callback in its callback set; both ran once, the third callback,
\* never registered, did not.
C27_Witness ==
    /\ disposed["Y"]
    /\ last.op = "dispose"
    /\ invoked["Y"]["cbRaises"].n = 1
    /\ invoked["Y"]["cbLast"].n = 1
    /\ invoked["Y"]["cb"].n = 0

\* C28: pack(v, forceClone) on a live handler returns the identifier form
\* with the key of fromSymbol for a symbol; v itself for a primitive; the
\* error form for an error, also when forceClone is set or the error is
\* marked solid; the value form when forceClone is set or v is solid and
\* not a remote handle; and else a reference whose key is registerToken(v)
\* (the registry's token of a plain object, the remote token of a handle)
\* and whose kind is solid exactly when v is marked solid. The reference of
\* a plain unmarked object unpacks at the peer as a new remote handle for
\* the key.
C28_PackClassification ==
    (last.op = "pack" /\ last.out # "throw")
    => LET e == last.e
           p == last.args[1]
       IN  CASE last.v = "symbol" ->
                  IF keyFor(last.sym) # NoKey
                  THEN p = PackedSymbol(keyFor(last.sym))
                  ELSE /\ sym2Key[e][last.sym] # None
                       /\ key2Sym[e][sym2Key[e][last.sym]] = last.sym
                       /\ p = PackedSymbol(NumKey(sym2Key[e][last.sym]))
             [] last.v \in Primitives -> p = Prim(last.v)
             [] IsError(last.v) -> p = PackedError(last.v)
             [] last.v = "handle" ->
                  IF last.clone THEN p = PackedValue("handle")
                  ELSE p = PackedToken(IF ProxyRef(last.from) \in solidObjects[e]
                                       THEN "solid" ELSE "shadow",
                                       handles[last.from].tok)
             [] OTHER ->
                  IF \/ last.clone
                     \/ PlainRef(last.v) \in solidObjects[e]
                     \/ last.v \in globalSolidObjects[e]
                  THEN p = PackedValue(last.v)
                  ELSE LET u == unpack(World(Peer(e)), Peer(e), p)
                       IN  /\ obj2Key[e][last.v] # None
                           /\ p = PackedToken("shadow", obj2Key[e][last.v])
                           /\ u.v = "handle"
                           /\ Len(u.w.h) = Len(handles) + 1
                           /\ u.w.h[Len(u.w.h)].ep = Peer(e)
                           /\ u.w.h[Len(u.w.h)].tok = p.key

\* C28 witness: an error marked solid was packed with forceClone and
\* travels in the error form.
C28_Witness ==
    /\ last.op = "pack"
    /\ IsError(last.v)
    /\ last.clone
    /\ PlainRef(last.v) \in solidObjects[last.e]
    /\ last.args = << PackedError(last.v) >>

\* The request that carries correlation token t is still on its way to
\* endpoint e, or e has not come to the end of its dispatch.
Unanswered(e, t) ==
    \/ \E i \in 1 .. Len(chan[e]) :
            chan[e][i].type \in Requests /\ chan[e][i].token = t
    \/ \E i \in 1 .. Len(tasks[e]) : tasks[e][i].m.token = t

\* C29: with each endpoint counting its tokens in a cell of its own, a
\* pending request of an endpoint is taken from the table of pending
\* requests, and its future settled, only by the reply to that request:
\* never while the peer has not yet dispatched the request, when every
\* message of the peer answers something else.
C29_ReplySettlesOwnRequest ==
    [][\A e \in Endpoints : \A t \in resolvers[e] :
        (t \notin resolvers'[e] \/ fut'[e][t] # fut[e][t])
        => ~Unanswered(Peer(e), t)]_vars

\* C30: after one request, and with every message delivered, the endpoints
\* come to a state from which no message is in flight any more.
C30_Quiescence == <>[](\A e \in Endpoints : chan[e] = << >>)

\* C31: every request an operation on a handle hands to the transport goes
\* to an endpoint whose registry binds the request's source token, or to
\* which an earlier request of the same handle's endpoint named that token
\* as its destination. So when Y passes its handle for a token of X's
\* registry back to X, what X does with the unpacked argument is not sent
\* to Y.
C31_OperationsReachOwner ==
    (last.op \in HandleOps /\ last.sent >= 1 /\ last.type \in Requests)
    => \/ key2Obj[Peer(last.e)][last.from].k # "none"
       \/ /\ handles[last.id].by.type \in Requests
          /\ handles[last.id].by.into = last.from

\* C32: while an endpoint is not disposed, whenever its reverse lookup maps
\* a reference value v to a token t, its registry binds t to v: the key that
\* pack gives v resolves back to v.
C32_RegistryConsistency ==
    \A e \in Endpoints : own[e] =>
        \A v \in DOMAIN obj2Key[e] :
            obj2Key[e][v] # None => key2Obj[e][obj2Key[e][v]] = ValEntry(v)

\* The wrapper of handle h, and the future it keeps once resolved.
WrapperOf(h) == handles[h].wr

\* C33: a resolve of a handle whose wrapper was resolved before returns the
\* wrapper's future and sends nothing; a resolve of a handle for a token
\* the endpoint's table already holds, be it the future of an earlier
\* request for that token or a value bound in the endpoint's own registry,
\* returns what the table holds and sends nothing; only a resolve that
\* finds neither sends a message, one resolve request for the token, and
\* leaves the request's future in the table. An entry of the table never
\* goes away while the endpoint is not disposed, so no second request for
\* the token follows, and two wrappers of one token that hold a request's
\* future hold the same one, rejected or not.
C33_ResolveOncePerToken ==
    [][/\ \A e \in Endpoints : \A t \in Tokens :
            (key2Obj[e][t].k # "none" /\ own'[e]) => key2Obj'[e][t].k # "none"
       /\ \A g \in HandleIds : \A h \in HandleIds :
            (/\ handles[g].ep = handles[h].ep
             /\ handles[g].tok = handles[h].tok
             /\ handles[WrapperOf(g)].rp.k = "req"
             /\ handles[WrapperOf(h)].rp.k = "req")
            => handles[WrapperOf(g)].rp = handles[WrapperOf(h)].rp
       /\ (ops' = ops + 1 /\ last'.op = "then" /\ last'.out = "ok")
          => LET h == last'.id
                 e == handles[h].ep
                 t == handles[h].tok
                 old == handles[WrapperOf(h)].rp
                 reg == key2Obj[e][t]
                 new == handles'[WrapperOf(h)].rp
             IN  /\ old.k # "none" => (new = old /\ last'.sent = 0)
                 /\ (old.k = "none" /\ reg.k # "none")
                    => (new = reg /\ last'.sent = 0)
                 /\ (old.k = "none" /\ reg.k = "none")
                    => (/\ new.k = "req"
                        /\ last'.sent = 1
                        /\ last'.type = "resolve"
                        /\ last'.from = t
                        /\ key2Obj'[e][t] = new
                        /\ fut'[e][new.t].st = "pending"
                        /\ fut'[e][new.t].from = t)
                 /\ last'.sent = 0 => chan' = chan]_vars

\* A second handle for the token of the exported root was resolved after
\* the request of the first one was rejected: nothing was sent, and both
\* wrappers hold the rejected future of that one request.
C33_Witness ==
    /\ last.op = "then"
    /\ last.out = "ok"
    /\ last.sent = 0
    /\ \E g \in HandleIds :
        /\ WrapperOf(g) # WrapperOf(last.id)
        /\ handles[g].ep = last.e
        /\ handles[g].tok = handles[last.id].tok
        /\ handles[WrapperOf(g)].rp.k = "req"
        /\ handles[WrapperOf(g)].rp = handles[WrapperOf(last.id)].rp
        /\ key2Obj[last.e][handles[g].tok] = handles[WrapperOf(g)].rp
        /\ fut[last.e][handles[WrapperOf(g)].rp.t].st = "rejected"

====
